---- MODULE Spec2Model ----
(***************************************************************************)
(* State-machine model of cloud/db_cloud_impl.cc (rocksdb-cloud):          *)
(* the CLOUDMANIFEST fetch / load / epoch-roll sequence of DBCloud::Open,  *)
(* the parallel copy of DBCloudImpl::Savepoint, SanitizeDirectory with     *)
(* NeedsReinitialization, FetchCloudManifest called on its own,            *)
(* getNewEpoch, and DBCloud::Open from SanitizeDirectory to the engine's   *)
(* open.                                                                   *)
(*                                                                         *)
(* Tokens.  An epoch is a token: 0 is the empty epoch "" (legacy           *)
(* database), 1..MaxEpoch are the strings getNewEpoch mints from distinct  *)
(* unique ids, SrcEpoch is an epoch that already exists in the source      *)
(* bucket.  A manifest file or object is named by its epoch               *)
(* (ManifestFileWithEpoch; epoch 0 names the plain file "MANIFEST") and    *)
(* holds the highest file number it references; Absent means the file or   *)
(* object does not exist.  A CLOUDMANIFEST document is a sequence of       *)
(* <<starting file number, epoch>> entries; a document file or object is   *)
(* None (absent) or Some(document).                                        *)
(***************************************************************************)
EXTENDS Integers, Sequences, FiniteSets, TLC

\* ------------------------------------------------------------- bounds
\* Number of epochs the processes may mint in one behaviour.
MaxEpoch == 3
\* Number of epochs the two racing processes may mint in one behaviour.
MaxRaceEpoch == 2
\* Largest file number a manifest may reference.
MaxFileNum == 1
\* Number of live files of the database Savepoint copies.
MaxFiles == 3
\* Largest value of max_file_opening_threads.
MaxThreads == 3
\* The same two bounds where termination is checked.
MaxFairFiles == 2
MaxFairThreads == 2

NoEpoch == 0
SrcEpoch == MaxEpoch + 1
Absent == -1
Names == 0..SrcEpoch
Writers == {1, 2}
Files == 1..MaxFiles
Threads == 1..MaxThreads
\* Status values of Savepoint: OK, or the failure of one call.
SvOK == <<"OK", 0>>
CopyError(f) == <<"IOError", f>>
IdentityError == <<"IOError", 0>>
Buckets == {"D", "S"}

None == <<>>
Some(d) == <<d>>
Get(o) == o[1]

VARIABLES
  \* configuration of the cloud environment
  faultsOn,        \* collaborator calls may fail with an I/O error
  epochCap,        \* number of unique ids available in this behaviour
  observe,         \* the history variables of a call are recorded
  destBucket,      \* GetDestBucketPrefix(): "" (no destination) or "D"
  srcBucket,       \* GetSrcBucketPrefix(): "", "D" (same as destination) or "S"
  \* the object store
  cloudCM,         \* bucket -> CLOUDMANIFEST object
  cloudMan,        \* bucket -> (epoch name -> manifest object content)
  \* one local directory and one process per writer
  localCM,         \* writer -> local CLOUDMANIFEST file
  localMan,        \* writer -> (epoch name -> local manifest file content)
  cm,              \* writer -> in-memory CloudManifest of the cloud env
  pc,              \* writer -> position in DBCloud::Open
  st,              \* writer -> Status of the last call
  oldEpoch,        \* writer -> MaybeRollNewEpoch's oldEpoch
  newEpoch,        \* writer -> MaybeRollNewEpoch's newEpoch
  maxFileNumber,   \* writer -> MaybeRollNewEpoch's maxFileNumber
  nextId,          \* next unique id GenerateUniqueId hands out
  \* history of the current MaybeRollNewEpoch call (observation only)
  steps,           \* writer -> steps of the call that took effect
  failedAt,        \* writer -> step whose failure the call returned ("" if none)
  callCM,          \* writer -> in-memory CloudManifest at the call's entry
  callDestCM,      \* writer -> destination CLOUDMANIFEST at the call's entry
  callHadFile,     \* writer -> local manifest of oldEpoch existed at entry
  second,          \* writer -> the call directly follows a successful call
  dirty,           \* writer -> engine wrote since the last successful call
  faulted,         \* writer -> a collaborator call failed during this open
  stoppedMax,      \* writer -> maxFileNumber of the roll the previous open
                   \*           stopped in (Absent: none)
  lastPublished,   \* <<writer, its in-memory CloudManifest>> at the last upload
                   \*   of a CLOUDMANIFEST to the destination
  \* Savepoint
  svpc,            \* position of the thread that called Savepoint
  live_files,      \* the live sst files of the open database
  destFiles,       \* the files that exist at the destination
  to_copy,         \* Savepoint's to_copy
  next_file_meta_idx,  \* the shared atomic cursor
  max_threads,     \* options.max_file_opening_threads
  svSt,            \* Savepoint's st, the result slot the workers share
  wpc,             \* worker -> position in load_handlers_func
  widx,            \* worker -> idx
  ws,              \* worker -> s, the status of its last CopyObject
  \* history of the Savepoint call (observation only)
  destAtCall,      \* the files at the destination when Savepoint was called
  copyCalls,       \* file -> number of CopyObject calls issued for it
  copyFailed,      \* files whose CopyObject failed
  existsFailed     \* files whose ExistsObject failed

cfgVars == <<faultsOn, epochCap, observe, destBucket, srcBucket>>
cloudVars == <<cloudCM, cloudMan>>
localVars == <<localCM, localMan, cm>>
rollVars == <<oldEpoch, newEpoch, maxFileNumber, nextId>>
histVars == <<steps, failedAt, callCM, callDestCM, callHadFile, second, dirty,
              faulted, stoppedMax, lastPublished>>
openVars == <<cfgVars, cloudVars, localVars, pc, st, rollVars, histVars>>
saveVars == <<svpc, live_files, destFiles, to_copy, next_file_meta_idx,
              max_threads, svSt, wpc, widx, ws, destAtCall, copyCalls,
              copyFailed, existsFailed>>

VARIABLES
  \* SanitizeDirectory and NeedsReinitialization: configuration
  cloudType,       \* GetCloudType(): "kNone", "kAws" or another backend
  destPrefix,      \* GetDestObjectPrefix()
  srcPrefix,       \* GetSrcObjectPrefix()
  readonly,        \* SanitizeDirectory's readonly
  max_open_files,  \* options.max_open_files
  keep_local_sst_files,  \* GetCloudEnvOptions().keep_local_sst_files
  \* the local directory and the IDENTITY objects of the buckets
  dirExists,       \* the local directory exists
  dirFiles,        \* the names of the files in the local directory
  identityFile,    \* content of the local IDENTITY file
  currentFile,     \* content of the local CURRENT file
  idObj,           \* side ("dest", "src") -> IDENTITY object stored there
  registry,        \* bucket -> path the registry stores for the local dbid
  \* the call
  spc,             \* position in SanitizeDirectory / NeedsReinitialization
  sst,             \* Status st
  do_reinit,       \* *do_reinit
  local_dbid,      \* NeedsReinitialization's local_dbid
  src_object_path,   \* NeedsReinitialization's src_object_path
  dest_object_path,  \* NeedsReinitialization's dest_object_path
  src_dbid,        \* NeedsReinitialization's src_dbid
  dest_dbid,       \* NeedsReinitialization's dest_dbid
  result,          \* SanitizeDirectory's result: the listed names not yet visited
  got_identity_from_dest,
  got_identity_from_src,
  new_dbid,        \* SanitizeDirectory's new_dbid
  \* history of the call (observation only)
  oracleSt,        \* Status NeedsReinitialization returned ("" before it returns)
  localChecks,     \* results of the checks of directory, CURRENT and IDENTITY
  srcAns,          \* answer of GetPathForDbid for the source ("" if not asked)
  destAns,         \* answer of GetPathForDbid for the destination
  dirAtCall,       \* the names in the local directory when the call began
  listed,          \* status of GetChildrenFileAttributes ("" before it)
  deleted,         \* names DeleteFile removed
  deleteFailed,    \* a DeleteFile call failed
  created,         \* names the call created or wrote in the local directory
  fetched          \* the IDENTITY fetches made: <<side, result>>

sanCfgVars == <<cloudType, destPrefix, srcPrefix, readonly, max_open_files,
                keep_local_sst_files>>
sanDirVars == <<dirExists, dirFiles, identityFile, currentFile, idObj,
                registry>>
oracleVars == <<do_reinit, local_dbid, src_object_path, dest_object_path,
                src_dbid, dest_dbid>>
sanHistVars == <<oracleSt, localChecks, srcAns, destAns, dirAtCall, listed,
                 deleted, deleteFailed, created, fetched>>
sanLocals == <<result, got_identity_from_dest, got_identity_from_src, new_dbid>>
sanVars == <<sanCfgVars, sanDirVars, spc, sst, oracleVars, sanLocals,
             sanHistVars>>

VARIABLES
  \* FetchCloudManifest called on its own
  fpc,             \* position: "idle", "call" or "returned"
  cmObj,           \* side ("dest", "src") -> CLOUDMANIFEST object stored there
  fetchLocal,      \* the local CLOUDMANIFEST file
  fetchSt,         \* the Status returned
  \* history of the call (observation only)
  fetchPrior,      \* the local CLOUDMANIFEST file at the call
  fetchCalls       \* the collaborator calls made, each with its result

fetchVars == <<fpc, cmObj, fetchLocal, fetchSt, fetchPrior, fetchCalls>>

VARIABLES
  \* getNewEpoch called on its own
  epc,             \* position: "idle", "call" or "returned"
  uniqueId,        \* the argument
  epochOut         \* the string returned

epochVars == <<epc, uniqueId, epochOut>>

VARIABLES
  \* DBCloud::Open as a whole
  legacyMan,       \* legacy manifest file name -> content of that local file
  persistent_cache,  \* a persistent cache path and size are given
  cleanupSt,       \* Status of DeleteInvisibleFiles ("" if not called)
  engine,          \* the engine open that was called ("" if none)
  \* history of the open (observation only)
  atOpen,          \* local files and buckets when DBCloud::Open was called
  migrated         \* <<name read from CURRENT, content of the file of that
                   \*   name>> when MaybeMigrateManifestFile was called

topVars == <<legacyMan, persistent_cache, cleanupSt, engine, atOpen, migrated>>

vars == <<openVars, saveVars, sanVars, fetchVars, epochVars, topVars>>

\* ----------------------------------------------------- CloudManifest
\* GetCurrentEpoch: the epoch of the last entry, "" for an empty document.
GetCurrentEpoch(doc) == IF doc = <<>> THEN NoEpoch ELSE doc[Len(doc)][2]

\* AddEpoch: append (startFileNumber, epochId).
AddEpoch(doc, startFileNumber, epochId) ==
  Append(doc, <<startFileNumber, epochId>>)

\* CreateForEmptyDatabase(""): a document with no epochs.
CreateForEmptyDatabase == <<>>

\* ------------------------------------------------------ configuration
dest == destBucket # ""
src == srcBucket # ""
dest_equal_src == srcBucket = destBucket /\ srcPrefix = destPrefix

destCM == IF dest THEN cloudCM["D"] ELSE None
destMan(e) == IF dest THEN cloudMan["D"][e] ELSE Absent

\* A history value, recorded only when the behaviour is observed.
Obs(x, unobserved) == IF observe THEN x ELSE unobserved

\* Results of a collaborator call that finds its target or not, or fails.
Faults == IF faultsOn THEN {"IOError"} ELSE {}
CallResults(found) ==
  Faults \cup (IF found THEN {"OK"} ELSE {"NotFound"})

\* ------------------------------------------------ FetchCloudManifest
\* An outcome of FetchCloudManifest: the status returned, the local
\* CLOUDMANIFEST file afterwards and the collaborator calls made, each
\* <<call, result>>.
Outcome(s, f, calls) == [st |-> s, file |-> f, calls |-> calls]

\* "if (st.ok())" after the GetObject from the destination (line 754).
FoundAtDest(r) == r = "OK"

\* Lines 773-776: CreateForEmptyDatabase and writeCloudManifest.
CreateLocal(lcm, calls) ==
  { Outcome(r, IF r = "OK" THEN Some(CreateForEmptyDatabase) ELSE lcm,
            Append(calls, <<"write", r>>))
    : r \in CallResults(TRUE) }

\* Lines 759-772: GetObject from the source, if there is one that is not the
\* destination.
FetchFromSrc(lcm, srcObj, trySrc, calls) ==
  IF trySrc
  THEN UNION { IF r = "IOError"
               THEN {Outcome(r, lcm, Append(calls, <<"src", r>>))}
               ELSE IF r = "OK"
               THEN {Outcome(r, srcObj, Append(calls, <<"src", r>>))}
               ELSE CreateLocal(lcm, Append(calls, <<"src", r>>))
             : r \in CallResults(srcObj # None) }
  ELSE CreateLocal(lcm, calls)

\* Lines 745-758: GetObject from the destination, if there is one.
FetchFromDest(lcm, destObj, srcObj, hasDest, trySrc, calls) ==
  IF hasDest
  THEN UNION { IF r = "IOError"
               THEN {Outcome(r, lcm, Append(calls, <<"dest", r>>))}
               ELSE IF FoundAtDest(r)
               THEN {Outcome(r, destObj, Append(calls, <<"dest", r>>))}
               ELSE FetchFromSrc(lcm, srcObj, trySrc,
                                 Append(calls, <<"dest", r>>))
             : r \in CallResults(destObj # None) }
  ELSE FetchFromSrc(lcm, srcObj, trySrc, calls)

\* Lines 741-776.  "!dest && FileExists(cloudmanifest).ok()" calls FileExists
\* only without a destination, and any status but OK falls through.
FetchRun(lcm, destObj, srcObj, hasDest, trySrc) ==
  IF hasDest
  THEN FetchFromDest(lcm, destObj, srcObj, hasDest, trySrc, <<>>)
  ELSE UNION { IF e = "OK"
               THEN {Outcome("OK", lcm, << <<"exists", e>> >>)}
               ELSE FetchFromDest(lcm, destObj, srcObj, hasDest, trySrc,
                                  << <<"exists", e>> >>)
             : e \in CallResults(lcm # None) }

\* The outcomes of FetchCloudManifest during DBCloud::Open for a local
\* CLOUDMANIFEST file lcm: the status returned and the local file afterwards.
FetchOutcomes(lcm) ==
  { [st |-> o.st, file |-> o.file]
    : o \in FetchRun(lcm, destCM, IF src THEN cloudCM[srcBucket] ELSE None,
                     dest, src /\ ~dest_equal_src) }

\* The locals and the history of a process that has not reached
\* MaybeRollNewEpoch.
NoCall(w) ==
  /\ steps' = [steps EXCEPT ![w] = {}]
  /\ failedAt' = [failedAt EXCEPT ![w] = ""]
  /\ callCM' = [callCM EXCEPT ![w] = None]
  /\ oldEpoch' = [oldEpoch EXCEPT ![w] = NoEpoch]
  /\ newEpoch' = [newEpoch EXCEPT ![w] = NoEpoch]
  /\ maxFileNumber' = [maxFileNumber EXCEPT ![w] = 0]
  /\ callDestCM' = [callDestCM EXCEPT ![w] = None]
  /\ callHadFile' = [callHadFile EXCEPT ![w] = FALSE]
  /\ second' = [second EXCEPT ![w] = FALSE]

\* A stage of the open returned the error s; DBCloud::Open returns it.
FailCall(w, s, at, injected) ==
  /\ pc' = [pc EXCEPT ![w] = "failed"]
  /\ st' = [st EXCEPT ![w] = s]
  /\ failedAt' = [failedAt EXCEPT ![w] = Obs(at, "")]
  /\ faulted' = [faulted EXCEPT ![w] = Obs(faulted[w] \/ injected, FALSE)]

FetchCloudManifest(w) ==
  /\ pc[w] = "Fetch"
  /\ \E out \in FetchOutcomes(localCM[w]) :
       /\ localCM' = [localCM EXCEPT ![w] = out.file]
       /\ st' = [st EXCEPT ![w] = out.st]
       /\ pc' = [pc EXCEPT ![w] = IF out.st = "OK" THEN "Load" ELSE "failed"]
       /\ faulted' = [faulted EXCEPT ![w] = Obs(out.st # "OK", FALSE)]
  /\ UNCHANGED <<cfgVars, cloudVars, localMan, cm, rollVars, steps, failedAt,
                 callCM, callDestCM, callHadFile, second, dirty, stoppedMax,
                 lastPublished, saveVars, sanVars, fetchVars, epochVars, topVars>>

\* CloudEnvImpl::LoadLocalCloudManifest: the in-memory CloudManifest becomes
\* the document of the local file.
LoadLocalCloudManifest(w) ==
  /\ pc[w] = "Load"
  /\ \E r \in CallResults(localCM[w] # None) :
       IF r = "OK"
       THEN /\ cm' = [cm EXCEPT ![w] = localCM[w]]
            /\ pc' = [pc EXCEPT ![w] = "Roll"]
            /\ st' = [st EXCEPT ![w] = "OK"]
            /\ UNCHANGED <<faulted, failedAt>>
       ELSE /\ FailCall(w, r, "Load", TRUE)
            /\ UNCHANGED cm
  /\ UNCHANGED <<cfgVars, cloudVars, localCM, localMan, rollVars, steps,
                 callCM, callDestCM, callHadFile, second, dirty, stoppedMax,
                 lastPublished, saveVars, sanVars, fetchVars, epochVars, topVars>>

\* ------------------------------------------------- MaybeRollNewEpoch
\* Variants of the guards below, as a slip in the code would make them.
NoRollNever(exists, epoch) == FALSE
NoRollIgnoresFile(exists, epoch) == epoch # NoEpoch
NoRollAlsoLegacy(exists, epoch) == exists
UploadsManifestNever(maxFile) == FALSE
ProceedsAlways(s) == TRUE
StaleEpoch(id) == 1

\* "if (st.ok() && !oldEpoch.empty())": the local manifest matches the
\* recorded epoch, no roll.
NoRollNeeded(exists, epoch) == exists /\ epoch # NoEpoch

\* "if (maxFileNumber > 0)" guarding the local rename.
RenamesManifest(maxFile) == maxFile > 0

\* "if (maxFileNumber > 0)" guarding the upload of the manifest.
UploadsManifest(maxFile) == maxFile > 0

\* "if (st.ok())" guarding the local CLOUDMANIFEST write and its upload.
Proceeds(s) == s = "OK"

\* getNewEpoch(cenv->GenerateUniqueId()): distinct unique ids give distinct
\* epochs.
FreshEpoch(id) == id

\* Lines 811-827: the existence check of the local manifest of oldEpoch and
\* the no-roll return.
MaybeRollNewEpoch(w) ==
  /\ pc[w] = "Roll"
  /\ LET epoch == GetCurrentEpoch(Get(cm[w]))
         exists == localMan[w][epoch] # Absent
     IN /\ oldEpoch' = [oldEpoch EXCEPT ![w] = epoch]
        /\ newEpoch' = [newEpoch EXCEPT ![w] = NoEpoch]
        /\ maxFileNumber' = [maxFileNumber EXCEPT ![w] = 0]
        /\ steps' = [steps EXCEPT ![w] = {}]
        /\ callCM' = [callCM EXCEPT ![w] = Obs(cm[w], None)]
        /\ callDestCM' = [callDestCM EXCEPT ![w] = Obs(destCM, None)]
        /\ callHadFile' = [callHadFile EXCEPT ![w] = Obs(exists, FALSE)]
        /\ \E r \in CallResults(exists) :
             IF r = "IOError"
             THEN FailCall(w, r, "FileExists", TRUE)
             ELSE /\ st' = [st EXCEPT ![w] = "OK"]
                  /\ failedAt' = [failedAt EXCEPT ![w] = ""]
                  /\ pc' = [pc EXCEPT ![w] =
                              IF NoRollNeeded(r = "OK", epoch)
                              THEN "done" ELSE "GetMax"]
                  /\ UNCHANGED faulted
  /\ dirty' = [dirty EXCEPT ![w] = FALSE]
  /\ UNCHANGED <<cfgVars, cloudVars, localVars, nextId, second, stoppedMax,
                 lastPublished, saveVars, sanVars, fetchVars, epochVars, topVars>>

\* The manifest the cloud env resolves "MANIFEST-000001" to: the local file
\* of the current epoch, else the object of that name in the destination,
\* else in the source; Absent when none exists.
CloudLookup(e) ==
  IF dest /\ cloudMan[destBucket][e] # Absent THEN cloudMan[destBucket][e]
  ELSE IF src /\ cloudMan[srcBucket][e] # Absent THEN cloudMan[srcBucket][e]
  ELSE Absent

\* Lines 828-841: ManifestReader::GetMaxFileNumberFromManifest through the
\* cloud env.  A manifest found only in the cloud is downloaded, so that the
\* local file of the current epoch exists afterwards; not-found means a new
\* database, maxFileNumber = 0.
GetMaxFileNumberFromManifest(w) ==
  /\ pc[w] = "GetMax"
  /\ LET e == oldEpoch[w]
         found == IF localMan[w][e] # Absent THEN localMan[w][e]
                  ELSE CloudLookup(e)
     IN \E r \in CallResults(found # Absent) :
          IF r = "IOError"
          THEN /\ FailCall(w, r, "GetMax", TRUE)
               /\ UNCHANGED <<localMan, maxFileNumber>>
          ELSE /\ localMan' = [localMan EXCEPT ![w][e] = found]
               /\ maxFileNumber' = [maxFileNumber EXCEPT ![w] =
                                      IF r = "OK" THEN found ELSE 0]
               /\ pc' = [pc EXCEPT ![w] = "AddEpoch"]
               /\ st' = [st EXCEPT ![w] = "OK"]
               /\ UNCHANGED <<faulted, failedAt>>
  /\ UNCHANGED <<cfgVars, cloudVars, localCM, cm, oldEpoch, newEpoch, nextId,
                 steps, callCM, callDestCM, callHadFile, second, dirty,
                 stoppedMax, lastPublished, saveVars, sanVars, fetchVars, epochVars, topVars>>

\* Lines 842-845: mint the new epoch, AddEpoch, Finalize.
RollNewEpoch(w) ==
  /\ pc[w] = "AddEpoch"
  /\ nextId <= epochCap
  /\ newEpoch' = [newEpoch EXCEPT ![w] = FreshEpoch(nextId)]
  /\ nextId' = nextId + 1
  /\ cm' = [cm EXCEPT ![w] =
              Some(AddEpoch(Get(cm[w]), maxFileNumber[w], FreshEpoch(nextId)))]
  /\ steps' = [steps EXCEPT ![w] = Obs(steps[w] \cup {"AddEpoch"}, {})]
  /\ pc' = [pc EXCEPT ![w] = "Rename"]
  /\ UNCHANGED <<cfgVars, cloudVars, localCM, localMan, st, oldEpoch,
                 maxFileNumber, failedAt, callCM, callDestCM, callHadFile,
                 second, dirty, faulted, stoppedMax, lastPublished, saveVars, sanVars, fetchVars, epochVars, topVars>>

\* Lines 846-856: rename the local manifest from the old to the new epoch;
\* without a destination the call returns OK here (line 881).
RenameManifest(w) ==
  /\ pc[w] = "Rename"
  /\ IF RenamesManifest(maxFileNumber[w])
     THEN \E r \in CallResults(localMan[w][oldEpoch[w]] # Absent) :
            IF r = "OK"
            THEN /\ localMan' = [localMan EXCEPT
                                   ![w][oldEpoch[w]] = Absent,
                                   ![w][newEpoch[w]] = localMan[w][oldEpoch[w]]]
                 /\ steps' = [steps EXCEPT ![w] = Obs(steps[w] \cup {"Rename"}, {})]
                 /\ pc' = [pc EXCEPT ![w] =
                             IF dest THEN "PutManifest" ELSE "done"]
                 /\ UNCHANGED <<st, failedAt, faulted>>
            ELSE /\ FailCall(w, r, "Rename", r = "IOError")
                 /\ UNCHANGED <<localMan, steps>>
     ELSE /\ pc' = [pc EXCEPT ![w] = IF dest THEN "PutManifest" ELSE "done"]
          /\ UNCHANGED <<localMan, steps, st, failedAt, faulted>>
  /\ UNCHANGED <<cfgVars, cloudVars, localCM, cm, rollVars, callCM,
                 callDestCM, callHadFile, second, dirty, stoppedMax,
                 lastPublished, saveVars, sanVars, fetchVars, epochVars, topVars>>

\* Lines 857-865: upload the renamed manifest under the new-epoch name.
PutManifest(w) ==
  /\ pc[w] = "PutManifest"
  /\ IF UploadsManifest(maxFileNumber[w])
     THEN \E r \in CallResults(localMan[w][newEpoch[w]] # Absent) :
            /\ st' = [st EXCEPT ![w] = r]
            /\ IF r = "OK"
               THEN /\ cloudMan' = [cloudMan EXCEPT
                          ![destBucket][newEpoch[w]] = localMan[w][newEpoch[w]]]
                    /\ steps' = [steps EXCEPT ![w] = Obs(steps[w] \cup {"PutManifest"}, {})]
                    /\ UNCHANGED <<failedAt, faulted>>
               ELSE /\ failedAt' = [failedAt EXCEPT ![w] = Obs("PutManifest", "")]
                    /\ faulted' = [faulted EXCEPT ![w] = Obs(faulted[w] \/ r = "IOError", FALSE)]
                    /\ UNCHANGED <<cloudMan, steps>>
     ELSE UNCHANGED <<st, cloudMan, steps, failedAt, faulted>>
  /\ pc' = [pc EXCEPT ![w] = "WriteCM"]
  /\ UNCHANGED <<cfgVars, cloudCM, localVars, rollVars, callCM, callDestCM,
                 callHadFile, second, dirty, stoppedMax, lastPublished,
                 saveVars, sanVars, fetchVars, epochVars, topVars>>

\* Lines 866-870: writeCloudManifest, the in-memory CloudManifest serialized
\* to the local CLOUDMANIFEST file.
WriteCloudManifest(w) ==
  /\ pc[w] = "WriteCM"
  /\ IF Proceeds(st[w])
     THEN \E r \in CallResults(TRUE) :
            /\ st' = [st EXCEPT ![w] = r]
            /\ IF r = "OK"
               THEN /\ localCM' = [localCM EXCEPT ![w] = cm[w]]
                    /\ steps' = [steps EXCEPT ![w] = Obs(steps[w] \cup {"WriteCM"}, {})]
                    /\ UNCHANGED <<failedAt, faulted>>
               ELSE /\ failedAt' = [failedAt EXCEPT ![w] = Obs("WriteCM", "")]
                    /\ faulted' = [faulted EXCEPT ![w] = Obs(TRUE, FALSE)]
                    /\ UNCHANGED <<localCM, steps>>
     ELSE UNCHANGED <<st, localCM, steps, failedAt, faulted>>
  /\ pc' = [pc EXCEPT ![w] = "PutCM"]
  /\ UNCHANGED <<cfgVars, cloudVars, localMan, cm, rollVars, callCM,
                 callDestCM, callHadFile, second, dirty, stoppedMax,
                 lastPublished, saveVars, sanVars, fetchVars, epochVars, topVars>>

\* Lines 871-881: upload the local CLOUDMANIFEST file and return.
PutCloudManifest(w) ==
  /\ pc[w] = "PutCM"
  /\ IF Proceeds(st[w])
     THEN \E r \in CallResults(localCM[w] # None) :
            /\ st' = [st EXCEPT ![w] = r]
            /\ pc' = [pc EXCEPT ![w] = IF r = "OK" THEN "done" ELSE "failed"]
            /\ IF r = "OK"
               THEN /\ cloudCM' = [cloudCM EXCEPT ![destBucket] = localCM[w]]
                    /\ lastPublished' = Some(<<w, Get(cm[w])>>)
                    /\ steps' = [steps EXCEPT ![w] = Obs(steps[w] \cup {"PutCM"}, {})]
                    /\ UNCHANGED <<failedAt, faulted>>
               ELSE /\ failedAt' = [failedAt EXCEPT ![w] = Obs("PutCM", "")]
                    /\ faulted' = [faulted EXCEPT ![w] = Obs(faulted[w] \/ r = "IOError", FALSE)]
                    /\ UNCHANGED <<cloudCM, lastPublished, steps>>
     ELSE /\ pc' = [pc EXCEPT ![w] = "failed"]
          /\ UNCHANGED <<st, cloudCM, lastPublished, steps, failedAt, faulted>>
  /\ UNCHANGED <<cfgVars, cloudMan, localVars, rollVars, callCM, callDestCM,
                 callHadFile, second, dirty, stoppedMax, saveVars, sanVars, fetchVars, epochVars, topVars>>

\* ------------------------------------------- engine, close and crash
\* DB::Open and the engine's writes after a successful open: the manifest
\* of the current epoch is created or extended in the local directory.
EngineWrite(w) ==
  /\ pc[w] = "done"
  /\ LET e == GetCurrentEpoch(Get(cm[w]))
         c == localMan[w][e]
     IN /\ c < MaxFileNum
        /\ localMan' = [localMan EXCEPT ![w][e] = IF c = Absent THEN 1 ELSE c + 1]
  /\ dirty' = [dirty EXCEPT ![w] = Obs(TRUE, FALSE)]
  /\ UNCHANGED <<cfgVars, cloudVars, localCM, cm, pc, st, rollVars, steps,
                 failedAt, callCM, callDestCM, callHadFile, second, faulted,
                 stoppedMax, lastPublished, saveVars, sanVars, fetchVars, epochVars, topVars>>

\* ~DBCloudImpl: the blocking flush makes the latest manifest durable in the
\* destination; the process ends.
Close(w) ==
  /\ pc[w] = "done"
  /\ LET e == GetCurrentEpoch(Get(cm[w]))
     IN cloudMan' = IF dest /\ localMan[w][e] # Absent
                    THEN [cloudMan EXCEPT ![destBucket][e] = localMan[w][e]]
                    ELSE cloudMan
  /\ pc' = [pc EXCEPT ![w] = "Fetch"]
  /\ cm' = [cm EXCEPT ![w] = None]
  /\ st' = [st EXCEPT ![w] = "OK"]
  /\ NoCall(w)
  /\ dirty' = [dirty EXCEPT ![w] = FALSE]
  /\ faulted' = [faulted EXCEPT ![w] = FALSE]
  /\ stoppedMax' = [stoppedMax EXCEPT ![w] = Absent]
  /\ UNCHANGED <<cfgVars, cloudCM, localCM, localMan, nextId, lastPublished,
                 saveVars, sanVars, fetchVars, epochVars, topVars>>

\* The open stopped inside a roll, after AddEpoch: by a crash or by a
\* returned error.
StoppedInRoll(w) == "AddEpoch" \in steps[w] /\ ~dirty[w]

\* The process crashes, or exits after DBCloud::Open returned an error: its
\* memory is lost, the local directory and the buckets stay as they are.
Crash(w) ==
  /\ pc[w] # "Fetch"
  /\ stoppedMax' = [stoppedMax EXCEPT ![w] =
                      Obs(IF StoppedInRoll(w) THEN maxFileNumber[w] ELSE Absent,
                          Absent)]
  /\ pc' = [pc EXCEPT ![w] = "Fetch"]
  /\ cm' = [cm EXCEPT ![w] = None]
  /\ st' = [st EXCEPT ![w] = "OK"]
  /\ NoCall(w)
  /\ dirty' = [dirty EXCEPT ![w] = FALSE]
  /\ faulted' = [faulted EXCEPT ![w] = FALSE]
  /\ UNCHANGED <<cfgVars, cloudVars, localCM, localMan, nextId, lastPublished,
                 saveVars, sanVars, fetchVars, epochVars, topVars>>

\* MaybeRollNewEpoch is called again right after it returned OK, with no
\* change to the local files, the CloudManifest or the destination between.
RollAgain(w) ==
  /\ pc[w] = "done"
  /\ ~dirty[w]
  /\ pc' = [pc EXCEPT ![w] = "Roll"]
  /\ second' = [second EXCEPT ![w] = TRUE]
  /\ UNCHANGED <<cfgVars, cloudVars, localVars, st, rollVars, steps, failedAt,
                 callCM, callDestCM, callHadFile, dirty, faulted, stoppedMax,
                 lastPublished, saveVars, sanVars, fetchVars, epochVars, topVars>>

\* ------------------------------------------------------------- Init
NoManifests == [e \in Names |-> Absent]

\* Savepoint is not running.
SaveIdle ==
  /\ svpc = "idle"
  /\ live_files = <<>>
  /\ destFiles = {}
  /\ to_copy = <<>>
  /\ next_file_meta_idx = 0
  /\ max_threads = 0
  /\ svSt = SvOK
  /\ wpc = [t \in Threads |-> "idle"]
  /\ widx = [t \in Threads |-> 0]
  /\ ws = [t \in Threads |-> SvOK]
  /\ destAtCall = {}
  /\ copyCalls = [f \in Files |-> 0]
  /\ copyFailed = {}
  /\ existsFailed = {}

\* ---------------------------------------- strings of the sanitizer
\* File names, paths and dbids are sequences of characters.
CurrentName == <<"C", "U", "R", "R", "E", "N", "T">>
IdentityName == <<"I", "D", "E", "N", "T", "I", "T", "Y">>
IdentityTmpName == IdentityName \o <<".", "t", "m", "p">>
LogPrefix == <<"L", "O", "G">>
OldLogName == LogPrefix \o <<".", "1">>
SstLogName == <<"7", ".">> \o LogPrefix
\* The name the Sanitizer writes into CURRENT, and a name the engine gave a
\* manifest before the protocol was in use.
PlaceholderName == <<"MANIFEST-000001">>
LegacyName == <<"MANIFEST-000005">>
LegacyNames == {PlaceholderName, LegacyName}
\* The local CLOUDMANIFEST file and ManifestFileWithEpoch: the manifest file
\* of an epoch (the plain name MANIFEST for the empty epoch).
CloudManifestName == <<"CLOUDMANIFEST">>
ManifestFile(e) == IF e = NoEpoch THEN <<"MANIFEST">> ELSE <<"MANIFEST-", e>>
\* The contents a local directory starts with.
DirShapes ==
  { {},
    {OldLogName},
    {CurrentName, OldLogName},
    {CurrentName, IdentityName},
    {IdentityName, OldLogName, SstLogName},
    {CurrentName, IdentityName, OldLogName, SstLogName} }

\* Object paths: registry entries and configured object prefixes.
PathA == <<"a">>
PathASlash == <<"a", "/">>
PathASlashBlank == <<"a", "/", " ">>
PathB == <<"b">>
PathRoot == <<"/">>
RegistryPaths == {PathA, PathASlashBlank, PathB, PathRoot}
\* <<GetDestObjectPrefix(), GetSrcObjectPrefix()>> of a configuration.
PrefixPairs == {<<PathA, PathA>>, <<PathASlash, PathB>>, <<PathRoot, PathA>>}

\* Contents of IDENTITY files and objects.
DbidX == <<"x", "\n">>
DbidY == <<"y">>
Dbids == {DbidX, DbidY}

\* The answer of a registry lookup: its status and the path it stored.
NotAsked == <<"", <<>>>>
Answer(status, path) == <<status, path>>

\* getNewEpoch has not been called on its own.
EpochIdle ==
  /\ epc = "idle"
  /\ uniqueId = <<>>
  /\ epochOut = <<>>

\* The stages of DBCloud::Open around the roll are not followed: no legacy
\* manifest file, no persistent cache, no cleanup and no engine open.
TopIdle ==
  /\ legacyMan = [n \in LegacyNames |-> Absent]
  /\ persistent_cache = FALSE
  /\ cleanupSt = ""
  /\ engine = ""
  /\ atOpen = None
  /\ migrated = None

\* FetchCloudManifest has not been called on its own.
FetchIdle ==
  /\ fpc = "idle"
  /\ cmObj = [r \in {"dest", "src"} |-> None]
  /\ fetchLocal = None
  /\ fetchSt = "OK"
  /\ fetchPrior = None
  /\ fetchCalls = <<>>

\* SanitizeDirectory has not been called.
SanCallIdle ==
  /\ cloudType = "kNone"
  /\ readonly = FALSE
  /\ max_open_files = 0
  /\ keep_local_sst_files = FALSE
  /\ dirExists = FALSE
  /\ dirFiles = {}
  /\ identityFile = None
  /\ currentFile = None
  /\ idObj = [r \in {"dest", "src"} |-> None]
  /\ registry = [b \in Buckets |-> None]
  /\ spc = "idle"
  /\ sst = "OK"
  /\ do_reinit = TRUE
  /\ local_dbid = <<>>
  /\ src_object_path = <<>>
  /\ dest_object_path = <<>>
  /\ src_dbid = <<>>
  /\ dest_dbid = <<>>
  /\ result = {}
  /\ got_identity_from_dest = FALSE
  /\ got_identity_from_src = FALSE
  /\ new_dbid = <<>>
  /\ oracleSt = ""
  /\ localChecks = <<>>
  /\ srcAns = NotAsked
  /\ destAns = NotAsked
  /\ dirAtCall = {}
  /\ listed = ""
  /\ deleted = {}
  /\ deleteFailed = FALSE
  /\ created = {}
  /\ fetched = <<>>

\* SanitizeDirectory and FetchCloudManifest have not been called; the object
\* prefixes of source and destination are the same.
SanIdle ==
  /\ SanCallIdle
  /\ FetchIdle
  /\ EpochIdle
  /\ TopIdle
  /\ destPrefix = <<>>
  /\ srcPrefix = <<>>

\* No process has opened the database yet.  The local directory of writer 1
\* is empty or holds a legacy database (the plain file MANIFEST, left by
\* MaybeMigrateManifestFile); the destination is empty or holds the legacy
\* database's MANIFEST object; a source bucket other than the destination
\* holds a database created under one epoch (starting file number 0) whose
\* manifest the engine has written since.
OpenIdle(legacy, destCopy) ==
  /\ cloudCM = [b \in Buckets |->
                  IF b = "S" /\ srcBucket = "S"
                  THEN Some(<<<<0, SrcEpoch>>>>) ELSE None]
  /\ cloudMan = [b \in Buckets |->
                  IF b = "S" /\ srcBucket = "S"
                  THEN [NoManifests EXCEPT ![SrcEpoch] = 1]
                  ELSE IF b = "D" /\ legacy /\ destCopy /\ destBucket = "D"
                  THEN [NoManifests EXCEPT ![NoEpoch] = 1]
                  ELSE NoManifests]
  /\ localCM = [w \in Writers |-> None]
  /\ localMan = [w \in Writers |->
                   IF w = 1 /\ legacy
                   THEN [NoManifests EXCEPT ![NoEpoch] = 1] ELSE NoManifests]
  /\ cm = [w \in Writers |-> None]
  /\ pc = [w \in Writers |-> "Fetch"]
  /\ st = [w \in Writers |-> "OK"]
  /\ oldEpoch = [w \in Writers |-> NoEpoch]
  /\ newEpoch = [w \in Writers |-> NoEpoch]
  /\ maxFileNumber = [w \in Writers |-> 0]
  /\ nextId = 1
  /\ steps = [w \in Writers |-> {}]
  /\ failedAt = [w \in Writers |-> ""]
  /\ callCM = [w \in Writers |-> None]
  /\ callDestCM = [w \in Writers |-> None]
  /\ callHadFile = [w \in Writers |-> FALSE]
  /\ second = [w \in Writers |-> FALSE]
  /\ dirty = [w \in Writers |-> FALSE]
  /\ faulted = [w \in Writers |-> FALSE]
  /\ stoppedMax = [w \in Writers |-> Absent]
  /\ lastPublished = None

InitRoll ==
  /\ faultsOn = TRUE
  /\ epochCap = MaxEpoch
  /\ observe = TRUE
  /\ destBucket \in {"", "D"}
  /\ srcBucket \in {"", destBucket, "S"}
  /\ \E legacy \in BOOLEAN, destCopy \in BOOLEAN : OpenIdle(legacy, destCopy)
  /\ SaveIdle
  /\ SanIdle

InitRace ==
  /\ faultsOn = FALSE
  /\ epochCap = MaxRaceEpoch
  /\ observe = FALSE
  /\ destBucket = "D"
  /\ srcBucket = ""
  /\ \E legacy \in BOOLEAN : OpenIdle(legacy, TRUE)
  /\ SaveIdle
  /\ SanIdle

OpenStep(w) ==
  \/ FetchCloudManifest(w)
  \/ LoadLocalCloudManifest(w)
  \/ MaybeRollNewEpoch(w)
  \/ GetMaxFileNumberFromManifest(w)
  \/ RollNewEpoch(w)
  \/ RenameManifest(w)
  \/ PutManifest(w)
  \/ WriteCloudManifest(w)
  \/ PutCloudManifest(w)
  \/ EngineWrite(w)
  \/ Close(w)
  \/ Crash(w)

NextRoll == OpenStep(1) \/ RollAgain(1)

NextRace == \E w \in Writers : OpenStep(w)

\* One process opening, closing and reopening one local directory.
SpecRoll == InitRoll /\ [][NextRoll]_vars

\* Two processes with separate local directories and one destination.
SpecRace == InitRace /\ [][NextRace]_vars

\* ====================================================================
\* Properties of the epoch roll
\* ====================================================================
\* The last entry of a document: <<starting file number, epoch>>.
LastEntry(doc) == doc[Len(doc)]

\* The destination's CLOUDMANIFEST names an epoch whose manifest object
\* exists at the destination.
PointerValid ==
  destCM # None => destMan(GetCurrentEpoch(Get(destCM))) # Absent

\* As PointerValid, for a current epoch recorded with a file number > 0.
PointerValidNonNew ==
  (destCM # None /\ Get(destCM) # <<>> /\ LastEntry(Get(destCM))[1] > 0)
    => destMan(LastEntry(Get(destCM))[2]) # Absent

\* The call of writer w has determined maxFileNumber and mints an epoch.
Rolling(w) ==
  \/ pc[w] \in {"AddEpoch", "Rename", "PutManifest", "WriteCM", "PutCM"}
  \/ pc[w] \in {"done", "failed"} /\ newEpoch[w] # NoEpoch

\* C1 (as claimed): in every reachable state with a destination configured,
\* the manifest object named by the current epoch of the destination's
\* CLOUDMANIFEST exists at the destination, for every maxFileNumber, 0
\* included.
C1_PointerValidityAnyMax == dest => PointerValid

\* C1 (amended): in every reachable state with a destination configured, if
\* the current epoch of the destination's CLOUDMANIFEST was recorded with a
\* starting file number > 0, the manifest object named for it exists at the
\* destination.
C1_PointerValidity == dest => PointerValidNonNew

\* C1 witness: a roll with maxFileNumber > 0 has published its CLOUDMANIFEST.
C1_Witness ==
  /\ pc[1] = "done"
  /\ "PutCM" \in steps[1]
  /\ maxFileNumber[1] > 0
  /\ GetCurrentEpoch(Get(destCM)) = newEpoch[1]

\* C2 (as claimed): when the open that follows a roll stopped after AddEpoch
\* (by a crash or a returned error) runs with a destination and without a
\* failing collaborator call, it does not fail, it does not take the
\* database for brand-new (maxFileNumber 0) if the stopped roll had
\* maxFileNumber > 0, and on success the destination's CLOUDMANIFEST names
\* an epoch whose manifest object exists at the destination.
C2_CrashRecovery ==
  (dest /\ stoppedMax[1] # Absent /\ ~faulted[1]) =>
     /\ pc[1] # "failed"
     /\ (stoppedMax[1] > 0 /\ Rolling(1)) => maxFileNumber[1] > 0
     /\ pc[1] = "done" => PointerValid

\* C3 (as claimed): after any sequence of successful MaybeRollNewEpoch calls
\* against one local directory the starting file numbers of the entries of
\* the CloudManifest are strictly increasing.
C3_EpochMonotonicity ==
  (pc[1] = "done" /\ cm[1] # None) =>
     \A i, j \in 1..Len(Get(cm[1])) :
        i < j => Get(cm[1])[i][1] < Get(cm[1])[j][1]

\* The call left the CloudManifest as it was at entry and put no object.
NoOpCall(w) ==
  /\ cm[w] = callCM[w]
  /\ steps[w] \cap {"AddEpoch", "PutManifest", "PutCM"} = {}

\* C4 (as claimed): a MaybeRollNewEpoch call that directly follows a
\* successful one, with nothing changed between, leaves the current epoch
\* unchanged, appends no entry and issues no PutObject.
C4_IdempotentAnyRoll ==
  (second[1] /\ pc[1] # "Roll") => NoOpCall(1)

\* C4 (amended): the same, provided the first call left a local manifest
\* file named for the current epoch (it did not mint the epoch of a
\* brand-new database, maxFileNumber = 0, for which no local manifest
\* exists yet).
C4_IdempotentNoOpRoll ==
  (second[1] /\ pc[1] # "Roll" /\ callHadFile[1]) => NoOpCall(1)

\* C4 witness: the second call returned OK on the no-roll path.
C4_Witness ==
  second[1] /\ pc[1] = "done" /\ callHadFile[1] /\ cm[1] # None

\* The steps that follow step `at` inside the destination block.
LaterSteps(at) ==
  IF at = "PutManifest" THEN {"WriteCM", "PutCM"}
  ELSE IF at = "WriteCM" THEN {"PutCM"} ELSE {}

\* C5: when the manifest upload, the local CLOUDMANIFEST write or the
\* CLOUDMANIFEST upload of a roll fails, the call does not return OK, its
\* status stays the failure, none of the later steps takes effect and the
\* destination's CLOUDMANIFEST is the one of the call's entry.
C5_FailedRollPublishesNothing ==
  failedAt[1] \in {"PutManifest", "WriteCM", "PutCM"} =>
     /\ pc[1] # "done"
     /\ st[1] # "OK"
     /\ steps[1] \cap LaterSteps(failedAt[1]) = {}
     /\ destCM = callDestCM[1]

\* C5 witness: a roll whose manifest upload failed has returned.
C5_Witness ==
  /\ pc[1] = "failed"
  /\ failedAt[1] = "PutManifest"
  /\ "Rename" \in steps[1]

\* The local manifest file named for the current epoch exists.
HasCurrentManifest(w) ==
  localMan[w][GetCurrentEpoch(Get(cm[w]))] # Absent

\* C6 (as claimed): whenever MaybeRollNewEpoch returned OK, a local manifest
\* file named for the CloudManifest's current epoch exists.
C6_PostconditionAnyRoll == pc[1] = "done" => HasCurrentManifest(1)

\* C6 (amended): whenever MaybeRollNewEpoch returned OK, a local manifest
\* file named for the current epoch exists, unless the call minted the
\* epoch of a brand-new database (maxFileNumber = 0).
C6_Postcondition ==
  (pc[1] = "done" /\ ~(newEpoch[1] # NoEpoch /\ maxFileNumber[1] = 0))
     => HasCurrentManifest(1)

\* C6 witness: a roll with maxFileNumber > 0 returned OK and the renamed
\* manifest is in the local directory.
C6_Witness ==
  /\ pc[1] = "done"
  /\ newEpoch[1] # NoEpoch
  /\ maxFileNumber[1] > 0
  /\ localMan[1][newEpoch[1]] # Absent

\* The destination's CLOUDMANIFEST is the complete in-memory document of the
\* writer that uploaded it last.
OneWritersDocument ==
  destCM # None =>
     /\ lastPublished # None
     /\ Get(lastPublished)[2] = Get(destCM)

NeedsCopyAlways(existsOk) == TRUE
NeedsCopy(existsOk) == ~existsOk

\* "if (st.ok())": the result slot holds no error yet.
SlotNeverFree(s) == FALSE
SlotFree(s) == s = SvOK

\* "next_file_meta_idx.fetch_add(1)": the value the cursor holds afterwards.
FetchAddStuck(c) == c
FetchAdd(c) == c + 1

\* Lines 221-228: the live files, in order, that ExistsObject did not report
\* present; failedChecks are the files whose ExistsObject failed.
RECURSIVE ToCopy(_, _, _)
ToCopy(files, present, failedChecks) ==
  IF files = <<>> THEN <<>>
  ELSE LET f == Head(files)
           rest == ToCopy(Tail(files), present, failedChecks)
       IN IF NeedsCopy(f \in present /\ f \notin failedChecks)
          THEN <<f>> \o rest ELSE rest

\* The workers that run load_handlers_func: the calling thread alone if
\* max_threads <= 1, else max_threads threads.
Workers == IF max_threads <= 1 THEN {1} ELSE 1..max_threads

Range(q) == {q[i] : i \in 1..Len(q)}

\* A variant of the guard below, used to test the properties.
JoinedAny == \E t \in Workers : wpc[t] = "exit"

\* Lines 260-270: load_handlers_func() has returned in the calling thread,
\* or every thread has been joined.
Joined == \A t \in Workers : wpc[t] = "exit"

\* Lines 193-232 and 260-266: Savepoint up to the start of the workers.
SavepointBegin ==
  /\ svpc = "start"
  /\ destAtCall' = destFiles
  /\ \/ \* GetDbIdentity fails: its status is returned
        /\ svSt' = IdentityError
        /\ svpc' = "returned"
        /\ UNCHANGED <<to_copy, existsFailed, wpc>>
     \/ \* no destination bucket: nothing to do
        /\ ~dest
        /\ svSt' = SvOK
        /\ svpc' = "returned"
        /\ UNCHANGED <<to_copy, existsFailed, wpc>>
     \/ /\ dest
        /\ svSt' = SvOK
        /\ \E failedChecks \in SUBSET (Range(live_files) \cap destFiles) :
             /\ existsFailed' = failedChecks
             /\ to_copy' = ToCopy(live_files, destFiles, failedChecks)
        /\ wpc' = [t \in Threads |-> IF t \in Workers THEN "claim" ELSE "idle"]
        /\ svpc' = "running"
  /\ UNCHANGED <<openVars, sanVars, fetchVars, epochVars, topVars, live_files, destFiles, next_file_meta_idx,
                 max_threads, widx, ws, copyCalls, copyFailed>>

\* Lines 236-239: the worker takes the next index from the atomic cursor.
ClaimFile(t) ==
  /\ svpc = "running"
  /\ wpc[t] = "claim"
  /\ next_file_meta_idx' = FetchAdd(next_file_meta_idx)
  /\ widx' = [widx EXCEPT ![t] = next_file_meta_idx]
  /\ wpc' = [wpc EXCEPT ![t] =
               IF next_file_meta_idx >= Len(to_copy) THEN "exit" ELSE "copy"]
  /\ UNCHANGED <<openVars, sanVars, fetchVars, epochVars, topVars, svpc, live_files, destFiles, to_copy, max_threads,
                 svSt, ws, destAtCall, copyCalls, copyFailed, existsFailed>>

\* Lines 240-244: CopyObject of the claimed file, which succeeds or fails.
CopyFile(t) ==
  /\ svpc = "running"
  /\ wpc[t] = "copy"
  /\ LET f == to_copy[widx[t] + 1]
     IN /\ copyCalls' = [copyCalls EXCEPT ![f] = copyCalls[f] + 1]
        /\ \E ok \in BOOLEAN :
             IF ok
             THEN /\ destFiles' = destFiles \cup {f}
                  /\ ws' = [ws EXCEPT ![t] = SvOK]
                  /\ wpc' = [wpc EXCEPT ![t] = "claim"]
                  /\ UNCHANGED copyFailed
             ELSE /\ ws' = [ws EXCEPT ![t] = CopyError(f)]
                  /\ copyFailed' = copyFailed \cup {f}
                  /\ wpc' = [wpc EXCEPT ![t] = "test"]
                  /\ UNCHANGED destFiles
  /\ UNCHANGED <<openVars, sanVars, fetchVars, epochVars, topVars, svpc, live_files, to_copy, next_file_meta_idx,
                 max_threads, svSt, widx, destAtCall, existsFailed>>

\* Line 252: the worker reads the shared result slot.
TestSlot(t) ==
  /\ svpc = "running"
  /\ wpc[t] = "test"
  /\ wpc' = [wpc EXCEPT ![t] = IF SlotFree(svSt) THEN "write" ELSE "exit"]
  /\ UNCHANGED <<openVars, sanVars, fetchVars, epochVars, topVars, svpc, live_files, destFiles, to_copy,
                 next_file_meta_idx, max_threads, svSt, widx, ws, destAtCall,
                 copyCalls, copyFailed, existsFailed>>

\* Lines 253-255: the worker writes its error to the slot and leaves the loop.
WriteSlot(t) ==
  /\ svpc = "running"
  /\ wpc[t] = "write"
  /\ svSt' = ws[t]
  /\ wpc' = [wpc EXCEPT ![t] = "exit"]
  /\ UNCHANGED <<openVars, sanVars, fetchVars, epochVars, topVars, svpc, live_files, destFiles, to_copy,
                 next_file_meta_idx, max_threads, widx, ws, destAtCall,
                 copyCalls, copyFailed, existsFailed>>

\* Lines 260-271: every worker has returned (joined); Savepoint returns st.
SavepointReturn ==
  /\ svpc = "running"
  /\ Joined
  /\ svpc' = "returned"
  /\ UNCHANGED <<openVars, sanVars, fetchVars, epochVars, topVars, live_files, destFiles, to_copy, next_file_meta_idx,
                 max_threads, svSt, wpc, widx, ws, destAtCall, copyCalls,
                 copyFailed, existsFailed>>

RECURSIVE Upto(_)
Upto(n) == IF n = 0 THEN <<>> ELSE Append(Upto(n - 1), n)

\* An open database with n live files, some of them already at the
\* destination, is about to be saved.
InitSaveUpTo(maxFiles, maxThreads) ==
  /\ faultsOn = TRUE
  /\ epochCap = 0
  /\ observe = TRUE
  /\ destBucket \in {"", "D"}
  /\ srcBucket = "S"
  /\ OpenIdle(FALSE, FALSE)
  /\ SanIdle
  /\ svpc = "start"
  /\ \E n \in 0..maxFiles : live_files = Upto(n)
  /\ destFiles \in SUBSET Range(live_files)
  /\ max_threads \in 0..maxThreads
  /\ to_copy = <<>>
  /\ next_file_meta_idx = 0
  /\ svSt = SvOK
  /\ wpc = [t \in Threads |-> "idle"]
  /\ widx = [t \in Threads |-> 0]
  /\ ws = [t \in Threads |-> SvOK]
  /\ destAtCall = {}
  /\ copyCalls = [f \in Files |-> 0]
  /\ copyFailed = {}
  /\ existsFailed = {}

InitSave == InitSaveUpTo(MaxFiles, MaxThreads)

NextSave ==
  \/ SavepointBegin
  \/ \E t \in Threads : ClaimFile(t) \/ CopyFile(t) \/ TestSlot(t) \/ WriteSlot(t)
  \/ SavepointReturn

\* One Savepoint call with its worker threads.
SpecSave == InitSave /\ [][NextSave]_vars

\* The steps of one worker thread.
WorkerStep(t) == ClaimFile(t) \/ CopyFile(t) \/ TestSlot(t) \/ WriteSlot(t)

\* The same call where every thread that can take a step eventually takes
\* one: the threads are scheduled, every CopyObject call returns, and join
\* returns once the thread has ended.
FairSpecSave ==
  /\ InitSaveUpTo(MaxFairFiles, MaxFairThreads)
  /\ [][NextSave]_vars
  /\ WF_vars(SavepointBegin)
  /\ \A t \in Threads : WF_vars(WorkerStep(t))
  /\ WF_vars(SavepointReturn)

\* ====================================================================
\* Properties of Savepoint
\* ====================================================================
RECURSIVE Sum(_, _)
Sum(f, S) == IF S = {} THEN 0
             ELSE LET x == CHOOSE y \in S : TRUE IN f[x] + Sum(f, S \ {x})

\* No collaborator call of the Savepoint call failed.
NoFailure ==
  copyFailed = {} /\ existsFailed = {} /\ svSt # IdentityError

C9_NeverSucceedsSilently ==
  (svpc = "returned" /\ dest /\ svSt # IdentityError) =>
     /\ copyFailed # {} =>
          /\ svSt # SvOK
          /\ \E f \in copyFailed : svSt = CopyError(f)
     /\ svSt = SvOK =>
          /\ copyFailed = {}
          /\ \A f \in Range(to_copy) : copyCalls[f] >= 1 /\ f \in destFiles

\* C9 witness: with several workers, one copy failed, another succeeded, and
\* Savepoint returned the failure.
C9_Witness ==
  /\ svpc = "returned"
  /\ max_threads >= 2
  /\ Cardinality(copyFailed) = 1
  /\ Sum(copyCalls, Files) >= 2
  /\ svSt # SvOK

\* C10 (as claimed): an error recorded in the result slot is never
\* overwritten, so the status returned is the failure recorded first.
C10_FirstErrorWins == [][svSt # SvOK => svSt' = svSt]_vars

\* The workers that have drawn an index from the cursor at least once.
HasDrawn(t) == wpc[t] \in {"copy", "test", "write", "exit"}

\* C11: in every state of a Savepoint call, no two workers hold the same
\* index drawn from the cursor, no file has been copied more than once, and
\* when the call has returned without a failed copy every file of to_copy
\* has been copied exactly once.
C11_ExclusiveClaiming ==
  /\ \A t1, t2 \in Workers :
       (t1 # t2 /\ HasDrawn(t1) /\ HasDrawn(t2)) => widx[t1] # widx[t2]
  /\ \A f \in Files : copyCalls[f] <= 1
  /\ (svpc = "returned" /\ dest /\ svSt # IdentityError /\ copyFailed = {}) =>
       \A i \in 1..Len(to_copy) : copyCalls[to_copy[i]] = 1

\* C11 witness: three workers shared three files to copy, no copy failed,
\* and Savepoint returned.
C11_Witness ==
  /\ svpc = "returned" /\ dest /\ copyFailed = {}
  /\ max_threads = 3
  /\ Len(to_copy) = 3
  /\ \A i \in 1..3 : copyCalls[to_copy[i]] = 1
  /\ \A t1, t2 \in Workers : t1 # t2 => widx[t1] # widx[t2]

\* ====================================================================
\* NeedsReinitialization and SanitizeDirectory
\* ====================================================================
\* trim() and rtrim_if(): surrounding white space, then every trailing c.
Whitespace == {" ", "\n"}

RECURSIVE RTrimIn(_, _)
RTrimIn(str, chars) ==
  IF str # <<>> /\ str[Len(str)] \in chars
  THEN RTrimIn(SubSeq(str, 1, Len(str) - 1), chars) ELSE str

RECURSIVE LTrimIn(_, _)
LTrimIn(str, chars) ==
  IF str # <<>> /\ Head(str) \in chars THEN LTrimIn(Tail(str), chars) ELSE str

trim(str) == LTrimIn(RTrimIn(str, Whitespace), Whitespace)
rtrim_if(str, c) == RTrimIn(str, {c})

\* "rtrim_if(trim(path), '/')" and "rtrim_if(trim(dbid), '\n')".
TrimPath(path) == rtrim_if(trim(path), "/")
TrimDbid(dbid) == rtrim_if(trim(dbid), "\n")

\* "local_dbid.find(dbid) == std::string::npos"
NotFoundIn(str, sub) ==
  ~\E i \in 0..(Len(str) - Len(sub)) : SubSeq(str, i + 1, i + Len(sub)) = sub

\* Both buckets and both object prefixes agree (lines 639-641).
SanDestEqualSrc == srcBucket = destBucket /\ srcPrefix = destPrefix

\* Variants of the guards below, used to test the properties.
LocalCheckResultRaw(s) == s
LookupFatalNever(s) == FALSE
PathMismatchNever(registered, configured) == FALSE
NoMappingEither(srcPath, destPath) == srcPath = <<>> \/ destPath = <<>>

\* "return st.IsNotFound() ? Status::OK() : st" (lines 356, 366, 377).
LocalCheckResult(s) == IF s = "NotFound" THEN "OK" ELSE s

\* "if (!st.ok() && !st.IsNotFound())" (lines 391, 418).
LookupFatal(s) == s # "OK" /\ s # "NotFound"

\* "if (dest_object_path != dest_specified_path)" (line 438).
PathMismatch(registered, configured) == registered # configured

\* "if (src_object_path.empty() && dest_object_path.empty())" (line 520).
NoMapping(srcPath, destPath) == srcPath = <<>> /\ destPath = <<>>

\* The answers GetPathForDbid can give for the local dbid in a bucket: the
\* path the registry stores, not-found, or a failure.
LookupAnswers(bucket) ==
  {Answer(r, IF r = "OK" THEN Get(registry[bucket]) ELSE <<>>) :
     r \in CallResults(registry[bucket] # None)}

\* NeedsReinitialization returns s to SanitizeDirectory (lines 557-564).
OracleReturns(s) ==
  /\ oracleSt' = s
  /\ sst' = s
  /\ spc' = IF s = "OK" THEN "Retention" ELSE "returned"

\* Lines 545-551: the cloud type.
SanitizeStart ==
  /\ spc = "start"
  /\ IF cloudType = "kNone" THEN sst' = "OK" /\ spc' = "returned"
     ELSE IF cloudType # "kAws" THEN sst' = "NotSupported" /\ spc' = "returned"
     ELSE sst' = "OK" /\ spc' = "NeedsReinitialization"
  /\ UNCHANGED <<openVars, saveVars, fetchVars, epochVars, topVars, sanCfgVars, sanDirVars, oracleVars,
                 sanLocals,
                 sanHistVars>>

\* Lines 331-342: no bucket at all, or assume that reinit is needed.
NeedsReinitialization ==
  /\ spc = "NeedsReinitialization"
  /\ IF ~src /\ ~dest
     THEN /\ do_reinit' = FALSE
          /\ OracleReturns("OK")
     ELSE /\ do_reinit' = TRUE
          /\ spc' = "CheckLocalDir"
          /\ UNCHANGED <<sst, oracleSt>>
  /\ UNCHANGED <<openVars, saveVars, fetchVars, epochVars, topVars, sanCfgVars, sanDirVars, local_dbid,
                 src_object_path, dest_object_path, src_dbid, dest_dbid,
                 sanLocals,
                 localChecks, srcAns, destAns, dirAtCall, listed, deleted, deleteFailed, created,
                 fetched>>

\* A check of the local directory with result r (lines 348-378).
LocalCheck(r, next) ==
  /\ localChecks' = Append(localChecks, r)
  /\ IF r # "OK"
     THEN OracleReturns(LocalCheckResult(r))
     ELSE spc' = next /\ UNCHANGED <<sst, oracleSt>>
  /\ UNCHANGED <<openVars, saveVars, fetchVars, epochVars, topVars, sanCfgVars, sanDirVars, do_reinit,
                 src_object_path, dest_object_path, src_dbid, dest_dbid,
                 sanLocals,
                 srcAns, destAns, dirAtCall, listed, deleted, deleteFailed, created, fetched>>

\* Lines 348-357: FileExists(local_dir).
CheckLocalDir ==
  /\ spc = "CheckLocalDir"
  /\ \E r \in CallResults(dirExists) : LocalCheck(r, "CheckCurrent")
  /\ UNCHANGED local_dbid

\* Lines 360-367: FileExists(CURRENT).
CheckCurrent ==
  /\ spc = "CheckCurrent"
  /\ \E r \in CallResults(CurrentName \in dirFiles) :
       LocalCheck(r, "ReadIdentity")
  /\ UNCHANGED local_dbid

\* Lines 371-381: ReadFileToString(IDENTITY) and the trimmed local dbid.
ReadIdentity ==
  /\ spc = "ReadIdentity"
  /\ \E r \in CallResults(IdentityName \in dirFiles) :
       /\ LocalCheck(r, "LookupSrc")
       /\ local_dbid' = IF r = "OK" THEN TrimDbid(Get(identityFile))
                        ELSE local_dbid

\* Lines 389-411: the source registry's entry for the local dbid.
LookupSrc ==
  /\ spc = "LookupSrc"
  /\ IF src
     THEN \E a \in LookupAnswers(srcBucket) :
            /\ srcAns' = a
            /\ IF LookupFatal(a[1])
               THEN OracleReturns(a[1]) /\ UNCHANGED src_object_path
               ELSE /\ src_object_path' =
                         IF a[1] = "OK" THEN TrimPath(a[2]) ELSE src_object_path
                    /\ spc' = "LookupDest"
                    /\ UNCHANGED <<sst, oracleSt>>
     ELSE /\ spc' = "LookupDest"
          /\ UNCHANGED <<srcAns, src_object_path, sst, oracleSt>>
  /\ UNCHANGED <<openVars, saveVars, fetchVars, epochVars, topVars, sanCfgVars, sanDirVars, do_reinit,
                 local_dbid, dest_object_path, src_dbid, dest_dbid, sanLocals, localChecks,
                 destAns, dirAtCall, listed, deleted, deleteFailed, created, fetched>>

\* Lines 416-453: the destination registry's entry and the path it stores.
LookupDest ==
  /\ spc = "LookupDest"
  /\ IF dest
     THEN \E a \in LookupAnswers(destBucket) :
            /\ destAns' = a
            /\ IF LookupFatal(a[1])
               THEN OracleReturns(a[1]) /\ UNCHANGED dest_object_path
               ELSE IF a[1] = "OK"
               THEN /\ dest_object_path' = TrimPath(a[2])
                    /\ IF PathMismatch(TrimPath(a[2]), TrimPath(destPrefix))
                       THEN OracleReturns("InvalidArgument")
                       ELSE spc' = "CloneChecks" /\ UNCHANGED <<sst, oracleSt>>
               ELSE /\ spc' = "CloneChecks"
                    /\ UNCHANGED <<dest_object_path, sst, oracleSt>>
     ELSE /\ spc' = "CloneChecks"
          /\ UNCHANGED <<destAns, dest_object_path, sst, oracleSt>>
  /\ UNCHANGED <<openVars, saveVars, fetchVars, epochVars, topVars, sanCfgVars, sanDirVars, do_reinit,
                 local_dbid, src_object_path, src_dbid, dest_dbid, sanLocals, localChecks,
                 srcAns, dirAtCall, listed, deleted, deleteFailed, created, fetched>>

\* Lines 455-485 and 488-518: the check of one side's dbid against the local
\* dbid stops with "reinit needed".
CloneCheckStops(dbid, otherBucket) ==
  /\ dbid # <<>>
  /\ \/ NotFoundIn(local_dbid, dbid)
     \/ local_dbid = dbid /\ otherBucket # "" /\ srcBucket # destBucket

\* Lines 454-533: the clone checks on src_dbid and dest_dbid, which nothing
\* has assigned, and the verdict.
CloneChecksAndVerdict ==
  /\ spc = "CloneChecks"
  /\ IF CloneCheckStops(src_dbid, destBucket)
        \/ CloneCheckStops(dest_dbid, srcBucket)
        \/ NoMapping(src_object_path, dest_object_path)
     THEN UNCHANGED do_reinit
     ELSE do_reinit' = FALSE
  /\ OracleReturns("OK")
  /\ UNCHANGED <<openVars, saveVars, fetchVars, epochVars, topVars, sanCfgVars, sanDirVars, local_dbid,
                 src_object_path, dest_object_path, src_dbid, dest_dbid,
                 sanLocals,
                 localChecks, srcAns, destAns, dirAtCall, listed, deleted, deleteFailed, created,
                 fetched>>

\* ------------------------------------------------ SanitizeDirectory
\* options.max_open_files = -1: the engine keeps every file open.
KeepAllOpen == -1
\* A max_open_files other than -1.
SomeOpenFiles == 5000

\* CloudEnvImpl::DBID_SEPARATOR and the ids GenerateUniqueId hands out.
DBID_SEPARATOR == <<"-">>
UniqueIds == {<<"7">>, <<"8">>}

\* The content SanitizeDirectory writes to CURRENT (lines 719-721).
CurrentPlaceholder == <<"MANIFEST-000001", "\n">>

\* Variants of the guards below, used to test the properties.
RetentionAlwaysOk(maxOpen, keep) == TRUE
KeepsFileNever(name) == FALSE
CloneNever(fromSrc) == FALSE
NewDatabaseNever(fromSrc, fromDest) == FALSE

\* Lines 570 and 580: every local file is retained.
RetentionOk(maxOpen, keep) == maxOpen = KeepAllOpen /\ keep

\* "if (file.name.find("LOG") == 0)" (line 613).
KeepsFile(name) ==
  Len(name) >= Len(LogPrefix) /\ SubSeq(name, 1, Len(LogPrefix)) = LogPrefix

\* "if (!got_identity_from_src && !got_identity_from_dest)" (line 670).
NewDatabase(fromSrc, fromDest) == ~fromSrc /\ ~fromDest

\* Lines 682-683: the directory is opened as a clone.
Clone(fromSrc) == fromSrc /\ ~SanDestEqualSrc /\ dest

\* SanitizeDirectory returns s.
SanReturns(s) == sst' = s /\ spc' = "returned"

\* Lines 566-598: the retention options without a destination, and the
\* verdict of NeedsReinitialization.
Retention ==
  /\ spc = "Retention"
  /\ IF ~dest /\ ~RetentionOk(max_open_files, keep_local_sst_files)
     THEN SanReturns("InvalidArgument")
     ELSE IF ~do_reinit THEN SanReturns("OK")
     ELSE spc' = "List" /\ UNCHANGED sst
  /\ UNCHANGED <<openVars, saveVars, fetchVars, epochVars, topVars, sanCfgVars, sanDirVars, oracleVars,
                 sanLocals, sanHistVars>>

\* Lines 603-608: GetChildrenFileAttributes.
ListDirectory ==
  /\ spc = "List"
  /\ \E r \in CallResults(dirExists) :
       /\ sst' = r
       /\ listed' = r
       /\ result' = IF r = "OK" THEN dirFiles ELSE {}
       /\ spc' = IF r = "IOError" THEN "returned" ELSE "Delete"
  /\ UNCHANGED <<openVars, saveVars, fetchVars, epochVars, topVars, sanCfgVars, sanDirVars, oracleVars,
                 got_identity_from_dest, got_identity_from_src, new_dbid,
                 oracleSt, localChecks, srcAns, destAns, dirAtCall, deleted,
                 deleteFailed, created, fetched>>

\* The file of that name in the directory of process 1 is gone: the local
\* CLOUDMANIFEST, a manifest of an epoch or a manifest with a legacy name.
Unlink(name) ==
  /\ localCM' = [localCM EXCEPT ![1] =
                   IF name = CloudManifestName THEN None ELSE @]
  /\ localMan' = [localMan EXCEPT ![1] =
                    [e \in Names |->
                       IF name = ManifestFile(e) THEN Absent ELSE @[e]]]
  /\ legacyMan' = [n \in LegacyNames |->
                     IF name = n THEN Absent ELSE legacyMan[n]]

\* Lines 609-623: one file of the listing is kept or deleted.
DeleteFile ==
  /\ spc = "Delete"
  /\ \E name \in result :
       /\ result' = result \ {name}
       /\ IF KeepsFile(name)
          THEN UNCHANGED <<sst, spc, dirFiles, identityFile, currentFile,
                           deleted, deleteFailed, localCM, localMan, legacyMan>>
          ELSE \E r \in CallResults(TRUE) :
                 /\ sst' = r
                 /\ IF r = "OK"
                    THEN /\ dirFiles' = dirFiles \ {name}
                         /\ deleted' = deleted \cup {name}
                         /\ Unlink(name)
                         /\ identityFile' =
                              IF name = IdentityName THEN None ELSE identityFile
                         /\ currentFile' =
                              IF name = CurrentName THEN None ELSE currentFile
                         /\ UNCHANGED <<spc, deleteFailed>>
                    ELSE /\ spc' = "returned"
                         /\ deleteFailed' = TRUE
                         /\ UNCHANGED <<dirFiles, identityFile, currentFile,
                                         deleted, localCM, localMan,
                                         legacyMan>>
  /\ UNCHANGED <<cfgVars, cloudVars, cm, pc, st, rollVars, histVars, saveVars,
                 fetchVars, epochVars, persistent_cache, cleanupSt, engine,
                 atOpen, migrated, sanCfgVars, dirExists, idObj, registry,
                 oracleVars,
                 got_identity_from_dest, got_identity_from_src, new_dbid,
                 oracleSt, localChecks, srcAns, destAns, dirAtCall, listed,
                 created, fetched>>

\* Lines 625-637: the listing is done; a missing directory is created.
CreateDirIfMissing ==
  /\ spc = "Delete"
  /\ result = {}
  /\ IF sst = "NotFound"
     THEN IF readonly
          THEN SanReturns("NotFound") /\ UNCHANGED dirExists
          ELSE \E r \in CallResults(TRUE) :
                 /\ sst' = r
                 /\ dirExists' = (r = "OK")
                 /\ spc' = IF r = "OK" THEN "FetchDest" ELSE "returned"
     ELSE spc' = "FetchDest" /\ UNCHANGED <<sst, dirExists>>
  /\ UNCHANGED <<openVars, saveVars, fetchVars, epochVars, topVars, sanCfgVars, dirFiles, identityFile,
                 currentFile, idObj, registry, oracleVars, sanLocals, sanHistVars>>

\* GetObject of the IDENTITY object of one side into the local IDENTITY.
GetIdentity(side, r) ==
  /\ fetched' = Append(fetched, <<side, r>>)
  /\ sst' = r
  /\ IF r = "OK"
     THEN /\ identityFile' = idObj[side]
          /\ dirFiles' = dirFiles \cup {IdentityName}
          /\ created' = created \cup {IdentityName}
     ELSE UNCHANGED <<identityFile, dirFiles, created>>

\* Lines 645-656: download IDENTITY from the destination.
FetchDestIdentity ==
  /\ spc = "FetchDest"
  /\ IF dest
     THEN \E r \in CallResults(idObj["dest"] # None) :
            /\ GetIdentity("dest", r)
            /\ got_identity_from_dest' = (r = "OK")
            /\ spc' = IF r = "IOError" THEN "returned" ELSE "FetchSrc"
     ELSE /\ spc' = "FetchSrc"
          /\ UNCHANGED <<fetched, sst, identityFile, dirFiles, created,
                          got_identity_from_dest>>
  /\ UNCHANGED <<openVars, saveVars, fetchVars, epochVars, topVars, sanCfgVars, dirExists, currentFile, idObj, registry,
                 oracleVars, result, got_identity_from_src, new_dbid, oracleSt,
                 localChecks, srcAns, destAns, dirAtCall, listed, deleted, deleteFailed>>

\* Lines 657-668: download IDENTITY from the source.
FetchSrcIdentity ==
  /\ spc = "FetchSrc"
  /\ IF src /\ ~SanDestEqualSrc /\ ~got_identity_from_dest
     THEN \E r \in CallResults(idObj["src"] # None) :
            /\ GetIdentity("src", r)
            /\ IF r = "IOError"
               THEN spc' = "returned" /\ UNCHANGED got_identity_from_src
               ELSE spc' = "Decide" /\ got_identity_from_src' = TRUE
     ELSE /\ spc' = "Decide"
          /\ UNCHANGED <<fetched, sst, identityFile, dirFiles, created,
                          got_identity_from_src>>
  /\ UNCHANGED <<openVars, saveVars, fetchVars, epochVars, topVars, sanCfgVars, dirExists, currentFile, idObj, registry,
                 oracleVars, result, got_identity_from_dest, new_dbid, oracleSt,
                 localChecks, srcAns, destAns, dirAtCall, listed, deleted, deleteFailed>>

\* Lines 670-699: a new database returns; a clone reads the source dbid from
\* the local IDENTITY and makes the new dbid.
DecideIdentity ==
  /\ spc = "Decide"
  /\ IF NewDatabase(got_identity_from_src, got_identity_from_dest)
     THEN SanReturns("OK") /\ UNCHANGED new_dbid
     ELSE IF Clone(got_identity_from_src)
     THEN \E r \in CallResults(IdentityName \in dirFiles) :
            /\ sst' = r
            /\ IF r = "OK"
               THEN /\ \E id \in UniqueIds :
                         new_dbid' = TrimDbid(Get(identityFile))
                                       \o DBID_SEPARATOR \o id
                    /\ spc' = "WriteIdentityTmp"
               ELSE spc' = "returned" /\ UNCHANGED new_dbid
     ELSE spc' = "WriteCurrent" /\ UNCHANGED <<sst, new_dbid>>
  /\ UNCHANGED <<openVars, saveVars, fetchVars, epochVars, topVars, sanCfgVars, sanDirVars, oracleVars,
                 result, got_identity_from_dest, got_identity_from_src,
                 sanHistVars>>

\* Lines 279-299: CreateNewIdentityFile writes IDENTITY.tmp.  A failure of
\* Append leaves the file NewWritableFile created.
WriteIdentityTmp ==
  /\ spc = "WriteIdentityTmp"
  /\ \E r \in CallResults(TRUE), made \in BOOLEAN :
       /\ sst' = r
       /\ r = "OK" => made
       /\ dirFiles' = IF made THEN dirFiles \cup {IdentityTmpName} ELSE dirFiles
       /\ created' = IF made THEN created \cup {IdentityTmpName} ELSE created
       /\ spc' = IF r = "OK" THEN "RenameIdentity" ELSE "returned"
  /\ UNCHANGED <<openVars, saveVars, fetchVars, epochVars, topVars, sanCfgVars, dirExists, identityFile,
                 currentFile, idObj, registry, oracleVars, sanLocals, oracleSt,
                 localChecks, srcAns, destAns, dirAtCall, listed, deleted, deleteFailed, fetched>>

\* Lines 304-313: CreateNewIdentityFile renames IDENTITY.tmp to IDENTITY.
RenameIdentity ==
  /\ spc = "RenameIdentity"
  /\ \E r \in CallResults(TRUE) :
       /\ sst' = r
       /\ IF r = "OK"
          THEN /\ identityFile' = Some(new_dbid)
               /\ dirFiles' = (dirFiles \ {IdentityTmpName}) \cup {IdentityName}
               /\ created' = created \cup {IdentityName}
               /\ spc' = "WriteCurrent"
          ELSE /\ spc' = "returned"
               /\ UNCHANGED <<identityFile, dirFiles, created>>
  /\ UNCHANGED <<openVars, saveVars, fetchVars, epochVars, topVars, sanCfgVars, dirExists, currentFile, idObj, registry,
                 oracleVars, sanLocals, oracleSt, localChecks, srcAns, destAns,
                 dirAtCall, listed, deleted, deleteFailed, fetched>>

\* Lines 707-729: the dummy CURRENT file.  A failure of Append leaves the
\* empty file NewWritableFile created.
WriteCurrent ==
  /\ spc = "WriteCurrent"
  /\ \E r \in CallResults(TRUE), made \in BOOLEAN :
       /\ sst' = r
       /\ r = "OK" => made
       /\ dirFiles' = IF made THEN dirFiles \cup {CurrentName} ELSE dirFiles
       /\ created' = IF made THEN created \cup {CurrentName} ELSE created
       /\ currentFile' = IF r = "OK" THEN Some(CurrentPlaceholder)
                         ELSE IF made THEN Some(<<>>) ELSE currentFile
       /\ spc' = "returned"
  /\ UNCHANGED <<openVars, saveVars, fetchVars, epochVars, topVars, sanCfgVars, dirExists, identityFile,
                 idObj, registry, oracleVars, sanLocals, oracleSt, localChecks, srcAns,
                 destAns, dirAtCall, listed, deleted, deleteFailed, fetched>>

\* DBCloud::Open is about to call SanitizeDirectory on a local directory
\* that is missing or holds some files, for a configuration of buckets,
\* object prefixes and options.  readonly varies where the directory is
\* missing and the retention options where there is no destination, the
\* configurations in which SanitizeDirectory reads them.  The database at
\* the source may have either dbid, the one at the destination has dbid x.
InitSanitize ==
  /\ faultsOn = TRUE
  /\ epochCap = 0
  /\ observe = TRUE
  /\ destBucket \in {"", "D"}
  /\ srcBucket \in {"", destBucket, "S"}
  /\ OpenIdle(FALSE, FALSE)
  /\ SaveIdle
  /\ FetchIdle
  /\ EpochIdle
  /\ TopIdle
  /\ cloudType \in {"kNone", "kAws", "kAzure"}
  /\ cloudType # "kAws" => (destBucket = "D" /\ srcBucket = "S")
  /\ \E pp \in PrefixPairs : destPrefix = pp[1] /\ srcPrefix = pp[2]
  /\ dirExists \in BOOLEAN
  /\ readonly \in (IF dirExists THEN {FALSE} ELSE BOOLEAN)
  /\ max_open_files \in (IF dest THEN {KeepAllOpen}
                          ELSE {KeepAllOpen, SomeOpenFiles})
  /\ keep_local_sst_files \in (IF dest THEN {TRUE} ELSE BOOLEAN)
  /\ dirFiles \in (IF dirExists THEN DirShapes ELSE {{}})
  /\ identityFile \in (IF IdentityName \in dirFiles
                        THEN {Some(d) : d \in Dbids} ELSE {None})
  /\ currentFile = IF CurrentName \in dirFiles
                   THEN Some(CurrentPlaceholder) ELSE None
  /\ idObj \in [{"dest", "src"} -> {None} \cup {Some(d) : d \in Dbids}]
  /\ idObj["dest"] # Some(DbidY)
  /\ ~dest => idObj["dest"] = None
  /\ ~src => idObj["src"] = None
  /\ (src /\ SanDestEqualSrc) => idObj["src"] = idObj["dest"]
  /\ registry \in [Buckets -> {None} \cup {Some(path) : path \in RegistryPaths}]
  /\ \A b \in Buckets : b \notin {srcBucket, destBucket} => registry[b] = None
  /\ spc = "start"
  /\ sst = "OK"
  /\ do_reinit = TRUE
  /\ local_dbid = <<>>
  /\ src_object_path = <<>>
  /\ dest_object_path = <<>>
  /\ src_dbid = <<>>
  /\ dest_dbid = <<>>
  /\ result = {}
  /\ got_identity_from_dest = FALSE
  /\ got_identity_from_src = FALSE
  /\ new_dbid = <<>>
  /\ oracleSt = ""
  /\ localChecks = <<>>
  /\ srcAns = NotAsked
  /\ destAns = NotAsked
  /\ dirAtCall = dirFiles
  /\ listed = ""
  /\ deleted = {}
  /\ deleteFailed = FALSE
  /\ created = {}
  /\ fetched = <<>>

NextSanitize ==
  \/ SanitizeStart
  \/ NeedsReinitialization
  \/ CheckLocalDir
  \/ CheckCurrent
  \/ ReadIdentity
  \/ LookupSrc
  \/ LookupDest
  \/ CloneChecksAndVerdict
  \/ Retention
  \/ ListDirectory
  \/ DeleteFile
  \/ CreateDirIfMissing
  \/ FetchDestIdentity
  \/ FetchSrcIdentity
  \/ DecideIdentity
  \/ WriteIdentityTmp
  \/ RenameIdentity
  \/ WriteCurrent

\* One call of SanitizeDirectory.
SpecSanitize == InitSanitize /\ [][NextSanitize]_vars

\* ------------------------------------- FetchCloudManifest on its own
\* CLOUDMANIFEST documents that differ from each other and from the empty
\* document: one per place a document can come from.
DocLocal == << <<0, 1>> >>
DocDest == << <<0, 2>> >>
DocSrc == << <<0, 3>> >>

\* One call of FetchCloudManifest, for every configuration of buckets and
\* object prefixes, with or without a local CLOUDMANIFEST file and with or
\* without a CLOUDMANIFEST object at the destination and at the source.
InitFetch ==
  /\ faultsOn = TRUE
  /\ epochCap = 0
  /\ observe = TRUE
  /\ destBucket \in {"", "D"}
  /\ srcBucket \in {"", "D", "S"}
  /\ OpenIdle(FALSE, FALSE)
  /\ SaveIdle
  /\ SanCallIdle
  /\ EpochIdle
  /\ TopIdle
  /\ \E pp \in PrefixPairs : destPrefix = pp[1] /\ srcPrefix = pp[2]
  /\ cmObj \in [{"dest", "src"} -> {None, Some(DocDest), Some(DocSrc)}]
  /\ ~dest => cmObj["dest"] = None
  /\ ~src => cmObj["src"] = None
  /\ (src /\ dest_equal_src) => cmObj["src"] = cmObj["dest"]
  /\ fetchLocal \in {None, Some(DocLocal)}
  /\ fetchPrior = fetchLocal
  /\ fpc = "call"
  /\ fetchSt = "OK"
  /\ fetchCalls = <<>>

\* DBCloudImpl::FetchCloudManifest (lines 732-777).
FetchCall ==
  /\ fpc = "call"
  /\ \E out \in FetchRun(fetchLocal, cmObj["dest"], cmObj["src"], dest,
                          src /\ ~dest_equal_src) :
       /\ fetchLocal' = out.file
       /\ fetchSt' = out.st
       /\ fetchCalls' = out.calls
  /\ fpc' = "returned"
  /\ UNCHANGED <<openVars, saveVars, sanVars, epochVars, topVars, cmObj,
                 fetchPrior>>

NextFetch == FetchCall

SpecFetch == InitFetch /\ [][NextFetch]_vars

\* ====================================================================
\* Properties of NeedsReinitialization
\* ====================================================================
\* The directory, CURRENT and the identity file were found.
LocalChecksPassed == localChecks = <<"OK", "OK", "OK">>

\* The destination lookup found an entry whose trimmed path is not the
\* trimmed configured destination path.
DestPathDiffers ==
  destAns[1] = "OK" /\ TrimPath(destAns[2]) # TrimPath(destPrefix)

\* C12: when the directory, CURRENT and the identity file are found and the
\* destination lookup finds an entry for the local dbid, the status
\* NeedsReinitialization returns is InvalidArgument exactly when the entry's
\* trimmed path differs from the trimmed configured destination path, and
\* in that case it is never OK, whatever the source lookup found.
C12_DestMismatchFatal ==
  (oracleSt # "" /\ LocalChecksPassed /\ destAns[1] = "OK") =>
     /\ (oracleSt = "InvalidArgument") <=> DestPathDiffers
     /\ DestPathDiffers => oracleSt # "OK"

\* C12 witness: the source registry has an entry, the destination registry
\* stores another path than the configured one, and the call has returned
\* InvalidArgument.
C12_Witness ==
  /\ oracleSt = "InvalidArgument"
  /\ LocalChecksPassed
  /\ srcAns[1] = "OK"
  /\ destAns = Answer("OK", PathB)
  /\ destPrefix = PathASlash
  /\ spc = "returned"

\* The local dbid is registered on a side and is the dbid of the database
\* stored there: the local directory is that database, not a clone of it.
OriginOf(side, ans) ==
  /\ ans[1] = "OK"
  /\ idObj[side] # None
  /\ TrimDbid(Get(idObj[side])) = local_dbid

\* C13 (as claimed): when NeedsReinitialization reports a verdict for a local
\* dbid that is registered in the source registry and equals the source's
\* dbid, with a destination configured in another bucket, the verdict is
\* needs-reinit = true; the same with source and destination exchanged.
C13_CloneModeInconsistency ==
  (oracleSt = "OK" /\ LocalChecksPassed /\ src /\ dest
     /\ srcBucket # destBucket) =>
     /\ OriginOf("src", srcAns) => do_reinit
     /\ OriginOf("dest", destAns) => do_reinit

\* No registry lookup failed with an error other than not-found.
NoLookupFailure == srcAns[1] # "IOError" /\ destAns[1] # "IOError"

\* No configured location has a registry entry for the local dbid.
NoEntryAnywhere == srcAns[1] # "OK" /\ destAns[1] # "OK"

LocalCheckGave(r) == \E i \in 1..Len(localChecks) : localChecks[i] = r

\* C15: with a bucket configured, once NeedsReinitialization has returned: if
\* the directory, CURRENT or the identity file was reported not-found, it
\* returned OK with needs-reinit = true and looked up no registry; if one of
\* the three checks failed with another error, it returned that error, and
\* no later check or lookup was made.
C15_MissingLocalState ==
  (oracleSt # "" /\ (src \/ dest)) =>
     /\ LocalCheckGave("NotFound") =>
          /\ oracleSt = "OK" /\ do_reinit
          /\ srcAns = NotAsked /\ destAns = NotAsked
          /\ localChecks[Len(localChecks)] = "NotFound"
     /\ LocalCheckGave("IOError") =>
          /\ oracleSt = "IOError"
          /\ srcAns = NotAsked /\ destAns = NotAsked
          /\ localChecks[Len(localChecks)] = "IOError"

\* C15 witness: the directory exists, CURRENT is missing, the registries
\* hold entries for the dbid, and the verdict was given without a lookup.
C15_Witness ==
  /\ oracleSt = "OK" /\ do_reinit
  /\ localChecks = <<"OK", "NotFound">>
  /\ src /\ dest
  /\ registry[srcBucket] # None /\ registry[destBucket] # None
  /\ srcAns = NotAsked /\ destAns = NotAsked
  /\ IdentityName \in dirAtCall

\* ====================================================================
\* Properties of SanitizeDirectory
\* ====================================================================
\* Every fetch of an IDENTITY object the call attempted returned not-found.
NoIdentityAnywhere ==
  /\ fetched # <<>>
  /\ \A i \in 1..Len(fetched) : fetched[i][2] = "NotFound"

\* C16 (as claimed): when reinitialization was needed and every fetch of an
\* identity object returned not-found, SanitizeDirectory returns success,
\* for every configuration of source and destination.
C16_NewDatabase ==
  (spc = "returned" /\ oracleSt = "OK" /\ do_reinit /\ NoIdentityAnywhere) =>
     sst = "OK"

\* The identity was downloaded from the given side.
IdentityFrom(side) ==
  \E i \in 1..Len(fetched) : fetched[i] = <<side, "OK">>

\* str begins with prefix and is longer.
ProperlyExtends(str, prefix) ==
  Len(str) > Len(prefix) /\ SubSeq(str, 1, Len(prefix)) = prefix

\* C17: when SanitizeDirectory has returned success: if the identity came
\* from the source only, a destination is configured and the source differs
\* from it, the local identity file holds the trimmed source dbid followed
\* by the separator and a generated id, so it properly extends the source
\* dbid; if the identity came from the destination, the local identity file
\* holds the destination's identity unchanged.
C17_CloneDbidLineage ==
  (spc = "returned" /\ sst = "OK") =>
     /\ (IdentityFrom("src") /\ ~IdentityFrom("dest") /\ dest
           /\ ~SanDestEqualSrc) =>
          /\ \E id \in UniqueIds :
               identityFile =
                 Some(TrimDbid(Get(idObj["src"])) \o DBID_SEPARATOR \o id)
          /\ ProperlyExtends(Get(identityFile), TrimDbid(Get(idObj["src"])))
     /\ IdentityFrom("dest") => identityFile = idObj["dest"]

\* C17 witness: the destination has no identity, the source's identity ends
\* with a newline, and the call returned success with the clone's dbid.
C17_Witness ==
  /\ spc = "returned" /\ sst = "OK"
  /\ fetched = << <<"dest", "NotFound">>, <<"src", "OK">> >>
  /\ idObj["src"] = Some(DbidX)
  /\ identityFile = Some(<<"x">> \o DBID_SEPARATOR \o <<"7">>)
  /\ IdentityTmpName \notin dirFiles

\* The options do not retain every local file.
RetentionMissing == max_open_files # KeepAllOpen \/ ~keep_local_sst_files

\* The call has changed no file of the local directory.
NoLocalChange ==
  dirFiles = dirAtCall /\ deleted = {} /\ created = {}

LogNamed == dirAtCall \cap {OldLogName}

\* Every file that was there at the call and is not named LOG... has been
\* deleted, and every file named LOG... is still there.
Wiped ==
  /\ \A name \in dirAtCall \ LogNamed : name \in deleted
  /\ \A name \in LogNamed : name \in dirFiles /\ name \notin deleted

\* The second half of C19: a call whose verdict is that no reinitialization
\* is needed has deleted, created and fetched nothing.
NothingDoneWithoutReinit ==
  (spc = "returned" /\ oracleSt = "OK" /\ ~do_reinit) =>
     NoLocalChange /\ fetched = <<>>

\* C19 (as claimed): once SanitizeDirectory has returned with the verdict
\* that reinitialization is needed, the listing and every delete having
\* succeeded, every pre-existing file not named LOG... has been removed and
\* every file named LOG... is untouched; without reinitialization nothing is
\* deleted, created or fetched.
C19_WipeWheneverReinit ==
  /\ (spc = "returned" /\ oracleSt = "OK" /\ do_reinit
        /\ listed # "IOError" /\ ~deleteFailed) => Wiped
  /\ NothingDoneWithoutReinit

\* C19: as above, for a call that got past the retention check of lines
\* 569-591 (a destination is configured, or the options retain every local
\* file).
C19_Wipe ==
  /\ (spc = "returned" /\ oracleSt = "OK" /\ do_reinit
        /\ (dest \/ ~RetentionMissing)
        /\ listed # "IOError" /\ ~deleteFailed) => Wiped
  /\ NothingDoneWithoutReinit

\* C19 witness: a directory holding IDENTITY, an old info log and a file
\* with LOG inside its name needed reinitialization; the call returned with
\* the first and the last deleted and the info log in place.
C19_Witness ==
  /\ spc = "returned" /\ sst = "OK"
  /\ do_reinit /\ ~deleteFailed
  /\ dirAtCall = {IdentityName, OldLogName, SstLogName}
  /\ deleted = {IdentityName, SstLogName}
  /\ OldLogName \in dirFiles /\ SstLogName \notin dirFiles

\* ====================================================================
\* Properties of FetchCloudManifest
\* ====================================================================
\* The call made the collaborator call c.
Called(c) == \E i \in 1..Len(fetchCalls) : fetchCalls[i][1] = c

\* The source is another place than the destination.
SrcDiffers == srcBucket # destBucket \/ srcPrefix # destPrefix

\* The content the local document has after a successful call with a
\* document to keep (if any) of kept.
Expected(kept) ==
  IF kept # None THEN kept
  ELSE IF dest /\ cmObj["dest"] # None THEN cmObj["dest"]
  ELSE IF src /\ SrcDiffers /\ cmObj["src"] # None THEN cmObj["src"]
  ELSE Some(<<>>)

\* The source is not fetched once the destination yielded a document, and a
\* fetch that fails with another error than not-found ends the call with
\* that error.
FetchOrder ==
  fpc = "returned" =>
    \A i \in 1..Len(fetchCalls) :
      /\ fetchCalls[i] = <<"dest", "OK">> => ~Called("src")
      /\ (fetchCalls[i][1] \in {"dest", "src"} /\ fetchCalls[i][2] = "IOError")
            => (i = Len(fetchCalls) /\ fetchSt = "IOError")

\* C20: once FetchCloudManifest has returned success, a local CLOUDMANIFEST
\* document exists; it is the prior local document if there is no
\* destination and a local document existed, otherwise the destination's
\* document if it has one, otherwise the document of a source that differs
\* from the destination and has one, otherwise an empty document; the source
\* is not fetched after the destination yielded a document, and a fetch
\* error other than not-found is returned at once.
C20_FetcherResult ==
  /\ (fpc = "returned" /\ fetchSt = "OK") =>
        /\ fetchLocal # None
        /\ fetchLocal = Expected(IF dest THEN None ELSE fetchPrior)
  /\ FetchOrder

\* The same, where the prior local document is kept if FileExists reported
\* it.
FetcherResultIfExistsOk ==
  /\ (fpc = "returned" /\ fetchSt = "OK") =>
        /\ fetchLocal # None
        /\ fetchLocal = Expected(IF fetchCalls[1] = <<"exists", "OK">>
                                 THEN fetchPrior ELSE None)
  /\ FetchOrder

\* C27: whenever SanitizeDirectory has returned success after a
\* reinitialization and a local CURRENT file exists, a local IDENTITY file
\* exists too.
C27_CurrentOnlyWithIdentity ==
  (spc = "returned" /\ sst = "OK" /\ oracleSt = "OK" /\ do_reinit
     /\ CurrentName \in dirFiles) =>
       IdentityName \in dirFiles

\* The same, for a call in which an identity was downloaded.
CurrentOnlyWithIdentityIfFetched ==
  (spc = "returned" /\ sst = "OK" /\ oracleSt = "OK" /\ do_reinit
     /\ CurrentName \in dirFiles /\ (IdentityFrom("dest") \/ IdentityFrom("src"))) =>
       IdentityName \in dirFiles

\* ====================================================================
\* Properties of the local CLOUDMANIFEST after a roll
\* ====================================================================
\* C26: when MaybeRollNewEpoch has returned success having minted a new
\* epoch, the local CLOUDMANIFEST file exists and its current epoch is the
\* current epoch of the in-memory CloudManifest, with or without a
\* destination.
C26_RollPersistedLocally ==
  (pc[1] = "done" /\ "AddEpoch" \in steps[1]) =>
     /\ localCM[1] # None
     /\ GetCurrentEpoch(Get(localCM[1])) = GetCurrentEpoch(Get(cm[1]))

\* The same, for a configuration with a destination.
RollPersistedLocallyWithDest ==
  (dest /\ pc[1] = "done" /\ "AddEpoch" \in steps[1]) =>
     /\ localCM[1] # None
     /\ GetCurrentEpoch(Get(localCM[1])) = GetCurrentEpoch(Get(cm[1]))

\* ====================================================================
\* Properties of the roll decision
\* ====================================================================
\* MaybeRollNewEpoch has been called in this open, it is not about to be
\* called again, and its existence check of the local manifest did not fail.
DecisionTaken(w) ==
  callCM[w] # None /\ pc[w] # "Roll" /\ failedAt[w] # "FileExists"

\* The call returned OK without minting an epoch.
TookNoRollPath(w) == pc[w] = "done" /\ "AddEpoch" \notin steps[w]

\* C24: MaybeRollNewEpoch takes the no-roll path exactly when the local
\* manifest file named for the recorded epoch exists and that epoch is not
\* empty; with an empty recorded epoch and an existing file it returns OK
\* only after appending one entry with a newly minted epoch; and when the
\* existence check fails with another error than not-found that error is
\* returned with no entry appended, no file renamed and nothing uploaded.
C24_RollDecision ==
  /\ DecisionTaken(1) =>
       (TookNoRollPath(1) <=> (callHadFile[1] /\ oldEpoch[1] # NoEpoch))
  /\ (DecisionTaken(1) /\ callHadFile[1] /\ oldEpoch[1] = NoEpoch
        /\ pc[1] = "done") =>
       /\ newEpoch[1] # NoEpoch
       /\ Get(cm[1]) = Append(Get(callCM[1]), <<maxFileNumber[1], newEpoch[1]>>)
  /\ failedAt[1] = "FileExists" =>
       /\ pc[1] = "failed" /\ st[1] = "IOError"
       /\ cm[1] = callCM[1]
       /\ steps[1] = {}
       /\ destCM = callDestCM[1]

\* C24 witness: a legacy database (empty recorded epoch, local MANIFEST
\* present) has been rolled to a new epoch.
C24_Witness ==
  /\ pc[1] = "done"
  /\ callHadFile[1] /\ oldEpoch[1] = NoEpoch
  /\ "AddEpoch" \in steps[1] /\ "Rename" \in steps[1]

\* A second case of C24: the existence check failed on a file that exists.
RollDecisionCheckFailed ==
  failedAt[1] = "FileExists" /\ callHadFile[1] /\ oldEpoch[1] # NoEpoch

\* ====================================================================
\* Termination of Savepoint
\* ====================================================================
\* No CopyObject call is in flight: every thread has not run or has left
\* load_handlers_func.
NoCopyInFlight == \A t \in Threads : wpc[t] \in {"idle", "exit"}

\* A worker that holds an index past the end of to_copy has left the loop,
\* and the cursor has been advanced at most once per worker past the end.
OnePastTheEnd ==
  /\ \A t \in Threads :
       wpc[t] \in {"copy", "test", "write"} => widx[t] < Len(to_copy)
  /\ svpc # "start" => next_file_meta_idx <= Len(to_copy) + Cardinality(Workers)

\* A worker that has left the loop claims no further index.
ExitIsFinal ==
  \A t \in Threads :
    wpc[t] = "exit" => (wpc'[t] = "exit" /\ widx'[t] = widx[t])

\* C25: with every thread scheduled and every CopyObject call returning,
\* Savepoint returns; when it has returned no copy is in flight; and every
\* worker leaves the loop with the first index it claims past the end of
\* to_copy and claims none after; for every value of
\* max_file_opening_threads.
C25_SavepointTermination ==
  /\ <>(svpc = "returned")
  /\ [](svpc = "returned" => NoCopyInFlight)
  /\ []OnePastTheEnd
  /\ [][ExitIsFinal]_vars

\* C25 witness: Savepoint has returned after as many workers as the bound
\* allows copied as many files as it allows, and each worker claimed one
\* index past the end.
C25_Witness ==
  /\ svpc = "returned"
  /\ max_threads = MaxFairThreads
  /\ max_threads > 1
  /\ Len(to_copy) = MaxFairFiles
  /\ next_file_meta_idx = Len(to_copy) + max_threads
  /\ \A t \in Workers : wpc[t] = "exit" /\ widx[t] >= Len(to_copy)

\* A second case of C25: the calling thread was the only worker.
SavepointSingleWorker ==
  /\ svpc = "returned"
  /\ max_threads <= 1
  /\ Len(to_copy) = MaxFairFiles
  /\ next_file_meta_idx = Len(to_copy) + 1

\* ---------------------------------------------------------------------------
\* getNewEpoch: the epoch identifier made from a unique id.

\* Characters of a unique id, written as the values of hexadecimal digits.
IdChars == {0, 1, 15}
\* Longest unique id drawn.
MaxIdLen == 4
\* Hexadecimal digits of a 32-bit hash, and of the identifier the buffer of
\* getNewEpoch has room for.
HashDigits == 8
EpochLength == 16

\* All strings over a set of characters, up to a length.
RECURSIVE StringsUpTo(_, _)
StringsUpTo(chars, n) ==
  IF n = 0 THEN {<<>>}
  ELSE LET shorter == StringsUpTo(chars, n - 1)
       IN  shorter \cup {Append(s, c) : s \in {t \in shorter : Len(t) = n - 1},
                                        c \in chars}

\* std::string::substr(pos, count) and substr(pos), positions from 0.
substr(s, pos, count) == SubSeq(s, pos + 1, pos + count)
substrFrom(s, pos) == SubSeq(s, pos + 1, Len(s))

\* XXH32 with seed 0, as its 8 hexadecimal digits, high digit first.  The
\* hash of the empty string is the published value 0x02CC5D05; for any other
\* string a stand-in: its characters followed by zeros.
XXH32(s) ==
  IF s = <<>> THEN <<0, 2, 12, 12, 5, 13, 0, 5>>
  ELSE [i \in 1..HashDigits |-> IF i <= Len(s) THEN s[i] ELSE 0]

\* low + (high << 32) in 64 bits: the two halves do not overlap, so the
\* digits of the sum are the digits of high followed by those of low.
Hash64(low, high) == high \o low

\* printf's conversion "%0" PRIx64: the flag 0 without a field width pads
\* nothing, so the digits start at the first digit that is not zero (a
\* value of zero prints as one digit).
RECURSIVE FormatHex(_)
FormatHex(digits) ==
  IF Len(digits) > 1 /\ Head(digits) = 0 THEN FormatHex(Tail(digits))
  ELSE digits

getNewEpoch(id) ==
  LET split == Len(id) \div 2
      low == substr(id, 0, split)
      hi == substrFrom(id, split)
      hash == Hash64(XXH32(low), XXH32(hi))
  IN  FormatHex(hash)

InitEpoch ==
  /\ faultsOn = FALSE
  /\ epochCap = 0
  /\ observe = FALSE
  /\ destBucket = ""
  /\ srcBucket = ""
  /\ OpenIdle(FALSE, FALSE)
  /\ SaveIdle
  /\ SanCallIdle
  /\ FetchIdle
  /\ TopIdle
  /\ destPrefix = <<>>
  /\ srcPrefix = <<>>
  /\ epc = "call"
  /\ uniqueId \in StringsUpTo(IdChars, MaxIdLen)
  /\ epochOut = <<>>

GetNewEpoch ==
  /\ epc = "call"
  /\ epochOut' = getNewEpoch(uniqueId)
  /\ epc' = "returned"
  /\ UNCHANGED <<openVars, saveVars, sanVars, fetchVars, topVars, uniqueId>>

NextEpoch == GetNewEpoch

SpecEpoch == InitEpoch /\ [][NextEpoch]_vars

\* The two halves the identifier is made of.
LowHalf == substr(uniqueId, 0, Len(uniqueId) \div 2)
HighHalf == substrFrom(uniqueId, Len(uniqueId) \div 2)

\* C23: for every unique id, getNewEpoch returns exactly 16 hexadecimal
\* characters, the rendering of the 64-bit value whose high half is the hash
\* of the second half of the id and whose low half is the hash of the first
\* half; the length is 16 also when the high hash starts with zero digits.
C23_EpochLength ==
  epc = "returned" =>
    /\ Len(epochOut) = EpochLength
    /\ epochOut = XXH32(HighHalf) \o XXH32(LowHalf)

\* What does hold: at most 16 characters, 16 of them exactly when the high
\* hash has no leading zero digit, and the value is the one the claim names.
EpochValue ==
  epc = "returned" =>
    /\ Len(epochOut) <= EpochLength
    /\ (Len(epochOut) = EpochLength <=> Head(XXH32(HighHalf)) # 0)
    /\ epochOut = FormatHex(XXH32(HighHalf) \o XXH32(LowHalf))

\* An identifier of 16 characters is returned.
EpochFullLength == ~(epc = "returned" /\ Len(epochOut) = EpochLength)

\* ---------------------------------------------------------------------------
\* DBCloud::Open as a whole: SanitizeDirectory, then for a read-write open
\* MaybeMigrateManifestFile, FetchCloudManifest, LoadLocalCloudManifest,
\* MaybeRollNewEpoch and DeleteInvisibleFiles, then the persistent cache and
\* the engine's open.  The process is writer 1; pc[1] is "Sanitize" while
\* SanitizeDirectory runs, "done" when MaybeRollNewEpoch returned OK, "opened"
\* or "failed" when DBCloud::Open returned.

\* Variants of the guards below, as a slip in the code would make them.
RunsRollStagesAlways(ro) == TRUE
NamedManifestMissingNever(s) == FALSE
CleanupVerdictKept(s) == s

\* "if (!read_only)" (line 104).
RunsRollStages(ro) == ~ro

\* "FileExists(manifest_filename).IsNotFound()" (line 802).
NamedManifestMissing(s) == s = "NotFound"

\* Lines 125-130: the Status of DeleteInvisibleFiles is replaced by OK.
CleanupVerdict(s) == "OK"

\* The local file a name read from CURRENT denotes (Absent: no such file).
FileNamed(name) == IF name \in LegacyNames THEN legacyMan[name] ELSE Absent

\* Lines 96-104: SanitizeDirectory returned.
SanitizeReturned ==
  /\ pc[1] = "Sanitize"
  /\ spc = "returned"
  /\ IF sst # "OK"
     THEN FailCall(1, sst, "Sanitize", sst = "IOError")
     ELSE /\ pc' = [pc EXCEPT ![1] =
                      IF RunsRollStages(readonly) THEN "Migrate" ELSE "Cache"]
          /\ st' = [st EXCEPT ![1] = "OK"]
          /\ UNCHANGED <<failedAt, faulted>>
  /\ UNCHANGED <<cfgVars, cloudVars, localVars, rollVars, steps, callCM,
                 callDestCM, callHadFile, second, dirty, stoppedMax,
                 lastPublished, saveVars, sanVars, fetchVars, epochVars,
                 topVars>>

\* Lines 779-807.  A failed call leaves the files as they are.
MaybeMigrateManifestFile ==
  /\ pc[1] = "Migrate"
  /\ LET name == IF currentFile = None THEN <<>>
                 ELSE rtrim_if(Get(currentFile), "\n")
         found == FileNamed(name)
         returns(s, injected) ==
           /\ migrated' = Some([name |-> name, found |-> found, st |-> s])
           /\ IF s = "OK"
              THEN /\ pc' = [pc EXCEPT ![1] = "Fetch"]
                   /\ st' = [st EXCEPT ![1] = "OK"]
                   /\ UNCHANGED <<failedAt, faulted>>
              ELSE FailCall(1, s, "Migrate", injected)
         unchanged == UNCHANGED <<localMan, legacyMan, dirFiles>>
     IN  \E exists \in CallResults(currentFile # None) :
           IF exists = "NotFound" THEN returns("OK", FALSE) /\ unchanged
           ELSE IF exists # "OK" THEN returns(exists, TRUE) /\ unchanged
           ELSE \E read \in CallResults(TRUE) :
             IF read # "OK" THEN returns(read, TRUE) /\ unchanged
             ELSE \E named \in CallResults(found # Absent) :
               IF NamedManifestMissing(named)
               THEN returns("OK", FALSE) /\ unchanged
               ELSE \E rename \in CallResults(found # Absent) :
                 /\ returns(rename, "IOError" \in {named, rename})
                 /\ IF rename = "OK"
                    THEN /\ legacyMan' = [legacyMan EXCEPT ![name] = Absent]
                         /\ localMan' = [localMan EXCEPT ![1][NoEpoch] = found]
                         /\ dirFiles' = (dirFiles \ {name})
                                          \cup {ManifestFile(NoEpoch)}
                    ELSE unchanged
  /\ UNCHANGED <<cfgVars, cloudVars, localCM, cm, rollVars, steps, callCM,
                 callDestCM, callHadFile, second, dirty, stoppedMax,
                 lastPublished, saveVars, fetchVars, epochVars,
                 persistent_cache, cleanupSt, engine, atOpen, sanCfgVars,
                 dirExists, identityFile, currentFile, idObj, registry, spc,
                 sst, oracleVars, sanLocals, sanHistVars>>

\* Lines 123-130: the cleanup, whose failure is logged and ignored.  What
\* DeleteInvisibleFiles deletes is not followed.
DeleteInvisibleFiles ==
  /\ pc[1] = "done"
  /\ \E r \in CallResults(TRUE) :
       /\ cleanupSt' = r
       /\ LET s == IF r = "OK" THEN r ELSE CleanupVerdict(r)
          IN  IF s = "OK"
              THEN /\ pc' = [pc EXCEPT ![1] = "Cache"]
                   /\ st' = [st EXCEPT ![1] = "OK"]
                   /\ UNCHANGED <<failedAt, faulted>>
              ELSE FailCall(1, s, "Cleanup", TRUE)
  /\ UNCHANGED <<cfgVars, cloudVars, localVars, rollVars, steps, callCM,
                 callDestCM, callHadFile, second, dirty, stoppedMax,
                 lastPublished, saveVars, sanVars, fetchVars, epochVars,
                 legacyMan, persistent_cache, engine, atOpen, migrated>>

\* Lines 133-163: a persistent cache is created if one is asked for.
NewPersistentCache ==
  /\ pc[1] = "Cache"
  /\ \E r \in (IF persistent_cache THEN CallResults(TRUE) ELSE {"OK"}) :
       IF r = "OK"
       THEN /\ pc' = [pc EXCEPT ![1] = "Engine"]
            /\ st' = [st EXCEPT ![1] = "OK"]
            /\ UNCHANGED <<failedAt, faulted>>
       ELSE FailCall(1, r, "Cache", TRUE)
  /\ UNCHANGED <<cfgVars, cloudVars, localVars, rollVars, steps, callCM,
                 callDestCM, callHadFile, second, dirty, stoppedMax,
                 lastPublished, saveVars, sanVars, fetchVars, epochVars,
                 topVars>>

\* Lines 165-191: DB::OpenForReadOnly or DB::Open; DBCloud::Open returns
\* the engine's Status.  What the engine writes once it is open is
\* EngineWrite.
EngineOpen ==
  /\ pc[1] = "Engine"
  /\ engine' = IF readonly THEN "DB::OpenForReadOnly" ELSE "DB::Open"
  /\ \E r \in CallResults(TRUE) :
       IF r = "OK"
       THEN /\ pc' = [pc EXCEPT ![1] = "opened"]
            /\ st' = [st EXCEPT ![1] = "OK"]
            /\ UNCHANGED <<failedAt, faulted>>
       ELSE FailCall(1, r, "Engine", TRUE)
  /\ UNCHANGED <<cfgVars, cloudVars, localVars, rollVars, steps, callCM,
                 callDestCM, callHadFile, second, dirty, stoppedMax,
                 lastPublished, saveVars, sanVars, fetchVars, epochVars,
                 legacyMan, persistent_cache, cleanupSt, atOpen, migrated>>

\* The local directories DBCloud::Open is called on: missing; empty; a
\* database from before the protocol, whose CURRENT names its manifest; a
\* database of the protocol under the epoch SrcEpoch.
OpenShapes ==
  {<<"missing">>, <<"empty">>, <<"cloud">>}
    \cup {<<"legacy", n>> : n \in LegacyNames}

ShapeFiles(shape) ==
  IF shape[1] \in {"missing", "empty"} THEN {}
  ELSE IF shape[1] = "cloud"
  THEN {CurrentName, IdentityName, OldLogName, CloudManifestName,
        ManifestFile(SrcEpoch)}
  ELSE {CurrentName, IdentityName, OldLogName, shape[2]}

\* The snapshot atOpen holds.
Snapshot ==
  [localCM |-> localCM[1], localMan |-> localMan[1], legacyMan |-> legacyMan,
   cloudCM |-> cloudCM, cloudMan |-> cloudMan]

InitOpen ==
  /\ faultsOn = TRUE
  /\ epochCap = MaxEpoch
  /\ observe = TRUE
  /\ destBucket \in {"", "D"}
  /\ srcBucket \in {"", destBucket, "S"}
  /\ SaveIdle
  /\ FetchIdle
  /\ EpochIdle
  /\ \E shape \in OpenShapes :
       /\ dirExists = (shape[1] # "missing")
       /\ dirFiles = ShapeFiles(shape)
       /\ identityFile = IF IdentityName \in dirFiles
                         THEN Some(DbidX) ELSE None
       /\ currentFile = IF shape[1] = "cloud" THEN Some(CurrentPlaceholder)
                        ELSE IF CurrentName \in dirFiles
                        THEN Some(shape[2] \o <<"\n">>) ELSE None
       /\ localCM = [w \in Writers |->
                       IF w = 1 /\ shape[1] = "cloud"
                       THEN Some(<<<<0, SrcEpoch>>>>) ELSE None]
       /\ localMan = [w \in Writers |->
                        IF w = 1 /\ shape[1] = "cloud"
                        THEN [NoManifests EXCEPT ![SrcEpoch] = 1]
                        ELSE NoManifests]
       /\ legacyMan = [n \in LegacyNames |->
                         IF shape = <<"legacy", n>> THEN 1 ELSE Absent]
  /\ cloudCM = [b \in Buckets |->
                  IF b = "S" /\ srcBucket = "S"
                  THEN Some(<<<<0, SrcEpoch>>>>) ELSE None]
  /\ cloudMan = [b \in Buckets |->
                  IF b = "S" /\ srcBucket = "S"
                  THEN [NoManifests EXCEPT ![SrcEpoch] = 1]
                  ELSE NoManifests]
  /\ cm = [w \in Writers |-> None]
  /\ pc = [w \in Writers |-> IF w = 1 THEN "Sanitize" ELSE "Fetch"]
  /\ st = [w \in Writers |-> "OK"]
  /\ oldEpoch = [w \in Writers |-> NoEpoch]
  /\ newEpoch = [w \in Writers |-> NoEpoch]
  /\ maxFileNumber = [w \in Writers |-> 0]
  /\ nextId = 1
  /\ steps = [w \in Writers |-> {}]
  /\ failedAt = [w \in Writers |-> ""]
  /\ callCM = [w \in Writers |-> None]
  /\ callDestCM = [w \in Writers |-> None]
  /\ callHadFile = [w \in Writers |-> FALSE]
  /\ second = [w \in Writers |-> FALSE]
  /\ dirty = [w \in Writers |-> FALSE]
  /\ faulted = [w \in Writers |-> FALSE]
  /\ stoppedMax = [w \in Writers |-> Absent]
  /\ lastPublished = None
  /\ persistent_cache \in BOOLEAN
  /\ cleanupSt = ""
  /\ engine = ""
  /\ atOpen = Some(Snapshot)
  /\ migrated = None
  /\ cloudType = "kAws"
  /\ destPrefix = PathA
  /\ srcPrefix = PathA
  /\ readonly \in BOOLEAN
  /\ max_open_files = KeepAllOpen
  /\ keep_local_sst_files = TRUE
  /\ idObj \in [{"dest", "src"} -> {None, Some(DbidX)}]
  /\ ~dest => idObj["dest"] = None
  /\ ~src => idObj["src"] = None
  /\ (src /\ SanDestEqualSrc) => idObj["src"] = idObj["dest"]
  /\ \E known \in BOOLEAN :
       registry = [b \in Buckets |->
                     IF known /\ b \in {srcBucket, destBucket}
                     THEN Some(PathA) ELSE None]
  /\ spc = "start"
  /\ sst = "OK"
  /\ do_reinit = TRUE
  /\ local_dbid = <<>>
  /\ src_object_path = <<>>
  /\ dest_object_path = <<>>
  /\ src_dbid = <<>>
  /\ dest_dbid = <<>>
  /\ result = {}
  /\ got_identity_from_dest = FALSE
  /\ got_identity_from_src = FALSE
  /\ new_dbid = <<>>
  /\ oracleSt = ""
  /\ localChecks = <<>>
  /\ srcAns = NotAsked
  /\ destAns = NotAsked
  /\ dirAtCall = dirFiles
  /\ listed = ""
  /\ deleted = {}
  /\ deleteFailed = FALSE
  /\ created = {}
  /\ fetched = <<>>

NextOpen ==
  \/ NextSanitize
  \/ SanitizeReturned
  \/ MaybeMigrateManifestFile
  \/ FetchCloudManifest(1)
  \/ LoadLocalCloudManifest(1)
  \/ MaybeRollNewEpoch(1)
  \/ GetMaxFileNumberFromManifest(1)
  \/ RollNewEpoch(1)
  \/ RenameManifest(1)
  \/ PutManifest(1)
  \/ WriteCloudManifest(1)
  \/ PutCloudManifest(1)
  \/ DeleteInvisibleFiles
  \/ NewPersistentCache
  \/ EngineOpen

\* One call of DBCloud::Open.
SpecOpen == InitOpen /\ [][NextOpen]_vars

\* ---------------------------------------------------------------------------
\* Properties of MaybeMigrateManifestFile and of DBCloud::Open as a whole.

\* The name CURRENT holds and the local file of that name, as
\* MaybeMigrateManifestFile finds them.
NamedInCurrent ==
  IF currentFile = None THEN <<>> ELSE rtrim_if(Get(currentFile), "\n")
NamedManifest == FileNamed(NamedInCurrent)

\* The files of the local directory of process 1.
LocalFiles ==
  <<localCM[1], localMan[1], legacyMan, currentFile, identityFile, dirFiles>>

\* MaybeMigrateManifestFile has nothing to migrate: it returns OK, or an
\* error after a collaborator call failed, and changes no file.
NothingToMigrate ==
  /\ pc'[1] \in {"Fetch", "failed"}
  /\ pc'[1] = "failed" => faulted'[1]
  /\ UNCHANGED LocalFiles

\* C21 as stated: if CURRENT exists and the manifest file it names exists,
\* MaybeMigrateManifestFile renames that file to MANIFEST-000001, the name
\* the Sanitizer writes into CURRENT; if CURRENT or the named manifest is
\* absent it returns success and changes no file.
C21_MigratorToPlaceholder ==
  [][pc[1] = "Migrate" =>
       IF currentFile # None /\ NamedManifest # Absent
       THEN pc'[1] = "Fetch" =>
              /\ legacyMan'[PlaceholderName] = NamedManifest
              /\ NamedInCurrent # PlaceholderName
                   => legacyMan'[NamedInCurrent] = Absent
       ELSE NothingToMigrate]_vars

\* C21, amended: the file is renamed to the plain name MANIFEST, the
\* manifest name of the empty epoch; every other file stays as it is.
C21_Migrator ==
  [][pc[1] = "Migrate" =>
       IF currentFile # None /\ NamedManifest # Absent
       THEN /\ pc'[1] = "Fetch" =>
                 /\ localMan'[1][NoEpoch] = NamedManifest
                 /\ legacyMan'[NamedInCurrent] = Absent
            /\ pc'[1] # "Fetch" => UNCHANGED <<localMan, legacyMan>>
            /\ \A e \in Names \ {NoEpoch} : localMan'[1][e] = localMan[1][e]
            /\ \A n \in LegacyNames \ {NamedInCurrent} :
                 legacyMan'[n] = legacyMan[n]
            /\ UNCHANGED <<localCM, currentFile, identityFile>>
       ELSE NothingToMigrate]_vars

\* The Migrator renamed a manifest with a legacy name.
C21_Witness ==
  /\ pc[1] = "Fetch"
  /\ migrated # None
  /\ Get(migrated).st = "OK"
  /\ Get(migrated).found # Absent
  /\ Get(migrated).name = LegacyName
  /\ localMan[1][NoEpoch] = Get(migrated).found
  /\ legacyMan[LegacyName] = Absent

\* The Migrator found CURRENT but not the manifest it names.
MigratorFoundNoManifest ==
  /\ pc[1] = "Fetch"
  /\ migrated # None
  /\ Get(migrated).name = PlaceholderName
  /\ Get(migrated).found = Absent

\* The stage of DBCloud::Open a position belongs to: Sanitizer, Migrator,
\* Fetcher, CloudManifest load, Epoch Roller, cleanup, engine open (with the
\* creation of the persistent cache handed to the engine), returned.
StageOf(p) ==
  CASE p = "Sanitize" -> 1
    [] p = "Migrate" -> 2
    [] p = "Fetch" -> 3
    [] p = "Load" -> 4
    [] p \in {"Roll", "GetMax", "AddEpoch", "Rename", "PutManifest", "WriteCM",
              "PutCM"} -> 5
    [] p = "done" -> 6
    [] p \in {"Cache", "Engine"} -> 7
    [] OTHER -> 8

\* The steps whose failure is one of the engine open, after the cleanup.
AfterCleanup == {"Cache", "Engine"}

\* A step of a read-write open stays in its stage, moves to the next one or
\* makes DBCloud::Open return an error; nothing follows a returned error.
StagesInOrder ==
  /\ pc[1] # "failed"
  /\ (~readonly /\ pc'[1] # pc[1]) =>
       \/ pc'[1] = "failed"
       \/ StageOf(pc'[1]) = StageOf(pc[1]) + 1
       \/ StageOf(pc'[1]) = StageOf(pc[1])

\* A failure of a stage before the cleanup is what DBCloud::Open returned,
\* and neither the cleanup nor the engine open was executed.
FailureGates ==
  (~readonly /\ pc[1] = "failed" /\ failedAt[1] \notin AfterCleanup) =>
    /\ st[1] # "OK"
    /\ cleanupSt = ""
    /\ engine = ""

\* After a failed cleanup the open goes on with Status OK: the engine open
\* is next, has been executed, or the persistent cache could not be created.
CleanupIgnored ==
  (cleanupSt \notin {"", "OK"}) =>
    /\ failedAt[1] # "Cleanup"
    /\ pc[1] \in {"Cache", "Engine", "opened", "failed"}
    /\ pc[1] \in {"Cache", "Engine"} => st[1] = "OK"
    /\ pc[1] = "opened" => engine = "DB::Open"
    /\ pc[1] = "failed" => failedAt[1] \in AfterCleanup
    /\ (pc[1] = "failed" /\ failedAt[1] = "Engine") => engine = "DB::Open"

\* C22: in a read-write DBCloud::Open the stages run in the order Sanitizer,
\* Migrator, Fetcher, CloudManifest load, Epoch Roller, cleanup, engine
\* open; a failure of a stage before the cleanup is returned and no later
\* stage and no engine open is executed; a failure of the cleanup is
\* ignored and the engine open still runs.
C22_OpenOrder ==
  /\ [][StagesInOrder]_vars
  /\ [](FailureGates /\ CleanupIgnored)
  /\ [](~readonly /\ engine # "" => cleanupSt # "")

\* The engine was opened after the cleanup failed.
C22_Witness ==
  /\ ~readonly
  /\ pc[1] = "opened"
  /\ cleanupSt = "IOError"
  /\ engine = "DB::Open"
  /\ migrated # None
  /\ callCM[1] # None

\* The open returned the error of the Fetcher.
OpenFailedInFetcher ==
  /\ ~readonly
  /\ pc[1] = "failed"
  /\ migrated # None
  /\ cm[1] = None
  /\ failedAt[1] = ""

\* The stages a read-only open skips have not been executed.
RollStagesSkipped ==
  /\ StageOf(pc[1]) \in {1, 7, 8}
  /\ migrated = None
  /\ cm[1] = None
  /\ callCM[1] = None
  /\ cleanupSt = ""

\* No object of a bucket has changed since DBCloud::Open was called.
NoPutObject ==
  /\ cloudCM = Get(atOpen).cloudCM
  /\ cloudMan = Get(atOpen).cloudMan

\* The local CLOUDMANIFEST and the local manifest files are those
\* DBCloud::Open was called on.
LocalManifestsUnchanged ==
  /\ localCM[1] = Get(atOpen).localCM
  /\ localMan[1] = Get(atOpen).localMan
  /\ legacyMan = Get(atOpen).legacyMan

\* Each of them is as it was, or is gone and SanitizeDirectory deleted it.
LocalManifestsUnchangedOrWiped ==
  /\ localCM[1] = Get(atOpen).localCM
       \/ (localCM[1] = None /\ CloudManifestName \in deleted)
  /\ \A e \in Names :
       \/ localMan[1][e] = Get(atOpen).localMan[e]
       \/ (localMan[1][e] = Absent /\ ManifestFile(e) \in deleted)
  /\ \A n \in LegacyNames :
       \/ legacyMan[n] = Get(atOpen).legacyMan[n]
       \/ (legacyMan[n] = Absent /\ n \in deleted)

ReadOnlyOpenWiped ==
  /\ readonly
  /\ pc[1] = "opened"
  /\ ~faulted[1]
  /\ Get(atOpen).localCM # None
  /\ localCM[1] = None
  /\ localMan[1] = NoManifests
====
